---- MODULE Spec2Model ----
(***************************************************************************)
(* Model of the finlens query engine.                                      *)
(*                                                                         *)
(*  Spec       one run of run_query: the LangGraph main graph with the     *)
(*             three agent subgraphs (retrieval, analysis, generation).    *)
(*  SpecGraph  the same graph invoked on an initial state whose error      *)
(*             field is an input (create_main_graph as a component).       *)
(*  SpecRetrieve  Retriever.retrieve / QdrantClient.hybrid_search over a   *)
(*             multi-tenant vector index, and MemoryManager memory search. *)
(*  SpecFanout the parallel batches: sub-query retrieval with pooling and  *)
(*             deduplication, and chart generation.                        *)
(*  SpecChat   run_query run in an executor by the chat_query route, with  *)
(*             a caller that may disconnect.                               *)
(*  SpecQuery  QueryProcessor.process_query and the search filters that    *)
(*             Retriever.retrieve builds from its result.                  *)
(*                                                                         *)
(* Optional values are encoded as sequences: <<>> is None, <<x>> is x.     *)
(* Scores are fixed-point numbers with three decimals (1000 = 1.0).        *)
(***************************************************************************)
EXTENDS Integers, Sequences, FiniteSets, TLC

\* ------------------------------------------------------------------------
\* Bounds of the model (not program constants)
\* ------------------------------------------------------------------------
MaxChunks == 2
MaxCharts == 1
MaxSubQueries == 2

\* ------------------------------------------------------------------------
\* Program constants
\* ------------------------------------------------------------------------
RecursionLimit == 15
MaxRetrievalAttempts == 3
MaxSelfHealAttempts == 2
MinChunksPerSubQuery == 2

None == <<>>
Some(x) == <<x>>

\* ------------------------------------------------------------------------
\* Input domains
\* ------------------------------------------------------------------------
UserIds == {"u1", ""}
GapLabels == {"g1", "g2"}
Intents == <<"revenue_lookup", "income_lookup", "margin_lookup">>

GoodChart == [kind |-> "dict", type |-> "bar", data |-> "labels+datasets"]
ScatterChart == [kind |-> "dict", type |-> "scatter", data |-> "{}"]
NotDictChart == [kind |-> "other", type |-> "<missing>", data |-> "<missing>"]
ChartValues == {GoodChart, ScatterChart, NotDictChart}
DictCharts == {GoodChart, ScatterChart}

SeqsUpTo(S, n) == UNION {[1..k -> S] : k \in 0..n}

Range(seq) == {seq[i] : i \in 1..Len(seq)}

\* ------------------------------------------------------------------------
\* State
\* ------------------------------------------------------------------------
VARIABLES state, pc, steps, ran, runs, memory_threads,
          store, req, rpc, retrieved, memory, fan, chat, qp, kw, cache,
          usage, worker

orchVars == <<state, pc, steps, ran, runs, memory_threads>>
retrVars == <<store, req, rpc, retrieved, memory>>
\* fan:  one parallel batch (sub-query retrievals or chart generations)
\* chat: the chat_query request handler that runs run_query in an executor
\* qp:   one call of Retriever.retrieve seen up to its search filters
\* kw:   one call of KeywordSearcher.calculate_keyword_relevance
\* cache: one SimpleCache with the threads that call it
\* usage: the chat requests of one user with the users row, the cached
\*        profile and the process-wide cost tracker
\* worker: the document worker loop with its queue and status store
svcVars == <<cache, usage, worker>>
auxVars == <<fan, chat, qp, kw, svcVars>>
vars == <<state, pc, steps, ran, runs, memory_threads,
          store, req, rpc, retrieved, memory, fan, chat, qp, kw, cache,
          usage, worker>>

\* No process-wide service is being looked at.
SvcIdle == cache = <<>> /\ usage = <<>> /\ worker = <<>>

\* No batch is being looked at and run_query is called directly.
AuxIdle == fan = <<>> /\ chat = "none" /\ qp = <<>> /\ kw = <<>> /\ SvcIdle

Nodes == {"memory_and_query", "retrieval", "validation", "refinement",
          "analysis", "analysis_validation",
          "text_explanation", "synthesis", "quality_check", "self_heal",
          "memory_update"}

\* AgentState as initialised by run_query.
AgentState(user_id, error) ==
    [user_id |-> user_id,
     sub_queries |-> None,
     is_decomposed |-> FALSE,
     sub_query_results |-> None,
     processed_query |-> None,
     retrieval_sufficient |-> FALSE,
     retrieval_attempts |-> 0,
     gaps |-> {},
     retrieved_context |-> 0,
     analysis_results |-> None,
     response |-> None,
     response_valid |-> FALSE,
     validation_errors |-> <<>>,
     self_heal_attempts |-> 0,
     relevant_history |-> None,
     error |-> error]

\* A node's returned dict is written to the channels the graph declares for
\* AgentState; a key that AgentState does not declare has no channel and
\* is not kept.
Merge(s, update) ==
    [k \in DOMAIN s |-> IF k \in DOMAIN update THEN update[k] ELSE s[k]]

\* state.get(key, default)
Get(s, key, default) == IF key \in DOMAIN s THEN s[key] ELSE default

\* ------------------------------------------------------------------------
\* Graph execution: one node per superstep, bounded by recursion_limit
\* ------------------------------------------------------------------------
Agent1Nodes == {"memory_and_query", "retrieval", "validation", "refinement"}
Agent2Nodes == {"analysis", "analysis_validation"}
Agent3Nodes == {"text_explanation", "synthesis", "quality_check",
                "self_heal", "memory_update"}

StageOf(node) ==
    IF node \in Agent1Nodes THEN "agent1"
    ELSE IF node \in Agent2Nodes THEN "agent2"
    ELSE IF node \in Agent3Nodes THEN "agent3"
    ELSE "none"

\* The node may run: the graph is at it and the subgraph has supersteps left.
At(node) == pc = node /\ steps < RecursionLimit

\* The node returns `update`; the graph merges it and moves to `next`.  A
\* move into another subgraph starts that subgraph's superstep count.
Goto(node, update, next) ==
    /\ state' = Merge(state, update)
    /\ runs' = [runs EXCEPT ![node] = @ + 1]
    /\ pc' = next
    /\ IF StageOf(next) = StageOf(node)
          THEN steps' = steps + 1 /\ ran' = ran
          ELSE /\ steps' = 0
               /\ ran' = IF next \in Nodes THEN Append(ran, StageOf(next))
                                            ELSE ran

\* The node raises: graph.invoke, and so run_query, raises.
Raise(node) ==
    /\ runs' = [runs EXCEPT ![node] = @ + 1]
    /\ pc' = "raised"
    /\ UNCHANGED <<state, steps, ran>>

\* ------------------------------------------------------------------------
\* Conditional edges
\* ------------------------------------------------------------------------
\* Routing after agent1 that does not look at the error field.
should_continue_after_agent1_ignore_error(s) == "agent2"

should_continue_after_agent1(s) ==
    IF s.error # None THEN "end" ELSE "agent2"

should_continue_after_agent2(s) ==
    IF s.error # None THEN "end" ELSE "agent3"

should_continue_retrieval(s) ==
    IF s.retrieval_sufficient THEN "end"
    ELSE IF s.retrieval_attempts >= MaxRetrievalAttempts THEN "end"
    ELSE "refine"

should_continue_healing(s) ==
    IF s.response_valid THEN "end"
    ELSE IF s.self_heal_attempts >= MaxSelfHealAttempts THEN "end"
    ELSE "heal"

\* Node that follows the end of the agent1 / agent2 subgraph in the main graph.
AfterAgent1(s) ==
    IF should_continue_after_agent1(s) = "agent2" THEN "analysis" ELSE "returned"

AfterAgent2(s) ==
    IF should_continue_after_agent2(s) = "agent3" THEN "text_explanation"
    ELSE "returned"

\* ------------------------------------------------------------------------
\* Agent 1: retrieval stage
\* ------------------------------------------------------------------------
SubQuery(i, aug) == [intent |-> Intents[i], augmented_query |-> aug]

\* run_query_processing with a decomposition answer that counts as a
\* decomposition even when it lists no sub-query.
run_query_processing_any_decomposition(needs_decomposition, n, llm, fallback) ==
    [raised |-> FALSE,
     update |-> [processed_query |-> None,
                 sub_queries |-> Some([i \in 1..n |-> SubQuery(i, "augmented")]),
                 is_decomposed |-> needs_decomposition]]

\* run_query_processing, the query-processing half of the node.
\*   needs_decomposition, n: the decomposer's answer (a failed decomposer
\*                    answers FALSE with no sub-queries)
\*   llm = "error":   a model call of the try block raised (sub-query
\*                    augmentation or structured extraction)
\*   fallback:        process_query in the except block, which asks the model
\*                    again: "ok" it answers with several companies and no
\*                    single year; "invalid" it answers with at most one
\*                    company (companies = None) or a single year (years is
\*                    an int), which ProcessedQuery rejects; "error" it raises
run_query_processing(needs_decomposition, n, llm, fallback) ==
    IF llm = "error"
       THEN IF fallback = "ok"
               THEN [raised |-> FALSE,
                     update |-> [processed_query |->
                                    Some([augmented_query |-> "llm",
                                          query_type |-> "general",
                                          companies |-> "extracted"])]]
               ELSE [raised |-> TRUE, update |-> << >>]
    ELSE IF needs_decomposition /\ n > 0
       THEN [raised |-> FALSE,
             update |-> [processed_query |-> None,
                         sub_queries |-> Some([i \in 1..n |-> SubQuery(i, "augmented")]),
                         is_decomposed |-> TRUE]]
    ELSE [raised |-> FALSE,
          update |-> [processed_query |->
                         Some([augmented_query |-> "llm",
                               query_type |-> "llm",
                               companies |-> "extracted"])]]

\* memory check and query processing, run in parallel and joined.
memory_check_and_query_processing_node ==
    /\ At("memory_and_query")
    /\ \E mem \in {"found", "empty", "error"},
          needs_decomposition \in BOOLEAN,
          n \in 0..MaxSubQueries,
          llm \in {"ok", "error"},
          fallback \in {"ok", "invalid", "error"} :
        LET memory_result ==
                [relevant_history |-> IF mem = "found" THEN Some(state.user_id)
                                                       ELSE None]
            query_result == run_query_processing(needs_decomposition, n,
                                                 llm, fallback)
            merged == [k \in DOMAIN memory_result \cup DOMAIN query_result.update |->
                          IF k \in DOMAIN query_result.update
                             THEN query_result.update[k]
                             ELSE memory_result[k]]
        IN  IF query_result.raised
               THEN Raise("memory_and_query")
               ELSE Goto("memory_and_query", merged, "retrieval")
    /\ UNCHANGED <<memory_threads, retrVars, auxVars>>

\* Chunk counts per sub-query that the parallel sub-query retrievals can give
\* (a failed sub-query task contributes none).
SubQueryCounts(sqs) == [{sqs[i].intent : i \in 1..Len(sqs)} -> 0..MaxChunks]

SumCounts(f) ==
    LET RECURSIVE Sum(_)
        Sum(S) == IF S = {} THEN 0
                  ELSE LET x == CHOOSE y \in S : TRUE IN f[x] + Sum(S \ {x})
    IN Sum(DOMAIN f)

retrieval_node ==
    /\ At("retrieval")
    /\ \/ /\ state.user_id = ""
          /\ Goto("retrieval", [retrieved_context |-> 0], "validation")
       \/ /\ state.user_id # ""
          /\ state.is_decomposed /\ state.sub_queries # None
          /\ \E counts \in SubQueryCounts(state.sub_queries[1]) :
                Goto("retrieval",
                     [retrieved_context |-> SumCounts(counts),
                      sub_query_results |-> Some(counts)],
                     "validation")
       \/ /\ state.user_id # ""
          /\ ~(state.is_decomposed /\ state.sub_queries # None)
          /\ state.processed_query = None
          /\ Goto("retrieval", [retrieved_context |-> 0], "validation")
       \/ /\ state.user_id # ""
          /\ ~(state.is_decomposed /\ state.sub_queries # None)
          /\ state.processed_query # None
          \* n = 0 also stands for a retrieval that raised
          /\ \E n \in 0..MaxChunks :
                Goto("retrieval", [retrieved_context |-> n], "validation")
    /\ UNCHANGED <<memory_threads, retrVars, auxVars>>

\* Gaps of a decomposed query: one per sub-query with fewer than 2 chunks.
DecomposedGaps(sqs, counts) ==
    {<<sqs[i].intent, Get(counts, sqs[i].intent, 0)>> :
        i \in {j \in 1..Len(sqs) :
                 Get(counts, sqs[j].intent, 0) < MinChunksPerSubQuery}}

\* validation_node that does not count the attempt.
validation_update_no_count(s, out, llm_sufficient, llm_gaps) ==
    IF ~(s.is_decomposed /\ s.sub_queries # None) /\ out = "error"
       THEN [retrieval_sufficient |-> s.retrieved_context > 0,
             retrieval_attempts |-> s.retrieval_attempts,
             gaps |-> {}]
       ELSE [retrieval_sufficient |-> llm_sufficient,
             retrieval_attempts |-> s.retrieval_attempts,
             gaps |-> llm_gaps]

\* validation_node whose error fallback accepts only when chunks exist.
validation_update_no_force(s, out, llm_sufficient, llm_gaps) ==
    LET attempts == s.retrieval_attempts + 1
        decomposed == s.is_decomposed /\ s.sub_queries # None
    IN
    IF (decomposed /\ s.sub_query_results = None) \/ (~decomposed /\ out = "error")
       THEN [retrieval_sufficient |-> s.retrieved_context > 0,
             retrieval_attempts |-> attempts,
             gaps |-> {}]
    ELSE IF decomposed
       THEN [retrieval_sufficient |->
                 DecomposedGaps(s.sub_queries[1], s.sub_query_results[1]) = {}
                     \/ attempts >= MaxRetrievalAttempts,
             retrieval_attempts |-> attempts,
             gaps |-> DecomposedGaps(s.sub_queries[1], s.sub_query_results[1])]
    ELSE [retrieval_sufficient |->
              llm_sufficient \/ attempts >= MaxRetrievalAttempts,
          retrieval_attempts |-> attempts,
          gaps |-> llm_gaps]

\* The dict validation_node returns.
\*   out = "error": an exception inside the try block
\*   otherwise the model's verdict (sufficient, gaps) in single-query mode
validation_update(s, out, llm_sufficient, llm_gaps) ==
    LET attempts == s.retrieval_attempts + 1
        decomposed == s.is_decomposed /\ s.sub_queries # None
    IN
    IF (decomposed /\ s.sub_query_results = None) \/ (~decomposed /\ out = "error")
       THEN [retrieval_sufficient |->
                 (s.retrieved_context > 0) \/ attempts >= MaxRetrievalAttempts,
             retrieval_attempts |-> attempts,
             gaps |-> {}]
    ELSE IF decomposed
       THEN LET gaps == DecomposedGaps(s.sub_queries[1], s.sub_query_results[1])
            IN [retrieval_sufficient |->
                    (gaps = {}) \/ attempts >= MaxRetrievalAttempts,
                retrieval_attempts |-> attempts,
                gaps |-> gaps]
    ELSE LET previous_gaps == Get(s, "previous_gaps", {})
             no_progress == previous_gaps # {} /\ llm_gaps = previous_gaps
         IN [retrieval_sufficient |->
                 llm_sufficient \/ no_progress
                     \/ attempts >= MaxRetrievalAttempts,
             retrieval_attempts |-> attempts,
             gaps |-> llm_gaps,
             previous_gaps |-> llm_gaps]

validation_node ==
    /\ At("validation")
    /\ \E out \in {"ok", "error"}, llm_sufficient \in BOOLEAN,
          llm_gaps \in SUBSET GapLabels :
        LET update == validation_update(state, out, llm_sufficient, llm_gaps)
            after == Merge(state, update)
        IN  /\ (out = "error" => llm_sufficient /\ llm_gaps = {})
            /\ Goto("validation", update,
                    IF should_continue_retrieval(after) = "refine"
                       THEN "refinement" ELSE AfterAgent1(after))
    /\ UNCHANGED <<memory_threads, retrVars, auxVars>>

\* Decomposed refinement: the sub-queries named in a gap are re-augmented.
RefineSubQueries(sqs, gaps) ==
    [i \in 1..Len(sqs) |->
        IF \E g \in gaps : g[1] = sqs[i].intent
           THEN [sqs[i] EXCEPT !.augmented_query = "re-augmented"]
           ELSE sqs[i]]

refinement_update(s, out) ==
    IF s.retrieval_attempts >= MaxRetrievalAttempts
       THEN [retrieval_sufficient |-> TRUE]
    ELSE IF s.is_decomposed /\ s.sub_queries # None
       THEN IF out = "error" /\ s.gaps # {}
               THEN [retrieval_sufficient |-> TRUE]
               ELSE [sub_queries |-> Some(RefineSubQueries(s.sub_queries[1], s.gaps)),
                     retrieval_sufficient |-> FALSE]
    ELSE IF s.processed_query = None
       THEN [retrieval_sufficient |-> TRUE]
    ELSE IF out = "error"
       THEN [retrieval_sufficient |-> TRUE]
    ELSE [processed_query |->
              Some([s.processed_query[1] EXCEPT !.augmented_query = "refined"]),
          retrieval_sufficient |-> FALSE]

refinement_node ==
    /\ At("refinement")
    /\ \E out \in {"ok", "error"} :
          Goto("refinement", refinement_update(state, out), "retrieval")
    /\ UNCHANGED <<memory_threads, retrVars, auxVars>>

\* ------------------------------------------------------------------------
\* Agent 2: analysis stage
\* ------------------------------------------------------------------------
analysis_node ==
    /\ At("analysis")
    /\ \E out \in {"ok", "error"} :
          Goto("analysis",
               [analysis_results |->
                   Some(IF state.retrieved_context = 0 THEN "no context"
                        ELSE IF out = "ok" THEN "analysis" ELSE "error")],
               "analysis_validation")
    /\ UNCHANGED <<memory_threads, retrVars, auxVars>>

analysis_validation_node ==
    /\ At("analysis_validation")
    /\ \E out \in {"valid", "invalid", "error"} :
        LET update ==
              IF state.analysis_results = None
                 THEN [validation_errors |-> <<<<0, "No analysis results to validate">>>>]
              ELSE IF out = "error"
                 THEN [validation_errors |-> <<<<0, "Validation error">>>>]
              ELSE [validation_errors |->
                        IF out = "valid" THEN <<>> ELSE <<<<0, "analysis">>>>,
                    analysis_results |-> state.analysis_results]
        IN Goto("analysis_validation", update, AfterAgent2(Merge(state, update)))
    /\ UNCHANGED <<memory_threads, retrVars, auxVars>>

\* ------------------------------------------------------------------------
\* Agent 3: generation stage
\* ------------------------------------------------------------------------
ApologyResponse == [text |-> "apology", charts |-> <<>>, sources |-> "none"]
FallbackResponse == [text |-> "unable", charts |-> <<>>, sources |-> "none"]

\* AnswerResponse declares charts as a list of dicts: building it from a
\* list holding anything else raises, which the node answers with the apology.
text_explanation_node ==
    /\ At("text_explanation")
    /\ \E out \in {"ok", "error"}, charts \in SeqsUpTo(ChartValues, MaxCharts) :
        /\ (out = "error" => charts = <<>>)
        /\ Goto("text_explanation",
                [response |->
                    Some(IF out = "ok" /\ \A i \in 1..Len(charts) :
                                               charts[i].kind = "dict"
                            THEN [text |-> "generated", charts |-> charts,
                                  sources |-> "extracted"]
                            ELSE ApologyResponse)],
                "synthesis")
    /\ UNCHANGED <<memory_threads, retrVars, auxVars>>

synthesis_node ==
    /\ At("synthesis")
    /\ Goto("synthesis",
            [response |-> IF state.response # None THEN state.response
                          ELSE Some(FallbackResponse)],
            "quality_check")
    /\ UNCHANGED <<memory_threads, retrVars, auxVars>>

ChartTypes == {"line", "bar", "pie", "doughnut"}

\* The errors quality_check_node records for chart number i.
ChartErrors(i, chart) ==
    IF chart.kind # "dict" THEN <<<<i, "Not a valid JSON object">>>>
    ELSE (IF chart.type = "<missing>" THEN <<<<i, "Missing 'type' field">>>>
          ELSE IF chart.type \notin ChartTypes THEN <<<<i, "Invalid type">>>>
          ELSE <<>>)
      \o (IF chart.data = "<missing>" THEN <<<<i, "Missing 'data' field">>>>
          ELSE IF chart.data = "<notdict>" THEN <<<<i, "'data' must be an object">>>>
          ELSE IF chart.data # "labels+datasets"
             THEN <<<<i, "Missing 'labels' or 'datasets' in data">>>>
          ELSE <<>>)

RECURSIVE ChartsErrors(_, _)
ChartsErrors(charts, i) ==
    IF i > Len(charts) THEN <<>>
    ELSE ChartErrors(i, charts[i]) \o ChartsErrors(charts, i + 1)

\* quality_check_node that looks at the chart type only.
quality_check_update_type_only(s) ==
    IF s.response = None
       THEN [response_valid |-> FALSE,
             validation_errors |-> <<<<0, "No response generated">>>>]
    ELSE LET charts == s.response[1].charts
             errors == SelectSeq(ChartsErrors(charts, 1),
                          LAMBDA e : e[2] \in {"Missing 'type' field",
                                               "Invalid type"})
         IN [response_valid |-> (Len(errors) = 0),
             validation_errors |-> errors,
             self_heal_attempts |-> s.self_heal_attempts]

quality_check_update(s) ==
    IF s.response = None
       THEN [response_valid |-> FALSE,
             validation_errors |-> <<<<0, "No response generated">>>>]
    ELSE LET errors == ChartsErrors(s.response[1].charts, 1)
         IN [response_valid |-> (Len(errors) = 0),
             validation_errors |-> errors,
             self_heal_attempts |-> s.self_heal_attempts]

quality_check_node ==
    /\ At("quality_check")
    /\ LET update == quality_check_update(state)
       IN Goto("quality_check", update,
               IF should_continue_healing(Merge(state, update)) = "heal"
                  THEN "self_heal" ELSE "memory_update")
    /\ UNCHANGED <<memory_threads, retrVars, auxVars>>

\* self_heal_node that asks the model for a whole new response.
self_heal_update_whole_response(s, out, charts) ==
    IF out \in {"raise", "no_response"} THEN [response_valid |-> TRUE]
    ELSE [response |-> Some([text |-> "regenerated", charts |-> charts,
                             sources |-> "none"]),
          self_heal_attempts |-> s.self_heal_attempts + 1,
          response_valid |-> FALSE]

\* The dict self_heal_node returns.
\*   out = "raise":       the prompt load or the model call raises
\*   out = "no_response": the model call returns nothing
\*   out = "unparsable":  the content is not JSON
\*   out = "parsed":      the content parses to the list `charts`
self_heal_update(s, out, charts) ==
    IF s.self_heal_attempts >= MaxSelfHealAttempts
       THEN [response_valid |-> TRUE]
    ELSE IF Len(s.validation_errors) = 0 THEN [response_valid |-> TRUE]
    ELSE IF s.response = None THEN [response_valid |-> TRUE]
    ELSE IF out \in {"raise", "no_response"} THEN [response_valid |-> TRUE]
    ELSE [response |->
              IF out = "parsed"
                 THEN Some([s.response[1] EXCEPT !.charts = charts])
                 ELSE s.response,
          self_heal_attempts |-> s.self_heal_attempts + 1,
          response_valid |-> FALSE]

self_heal_node ==
    /\ At("self_heal")
    /\ \E out \in {"raise", "no_response", "unparsable", "parsed"},
          charts \in SeqsUpTo(ChartValues, MaxCharts) :
        /\ (out # "parsed" => charts = <<>>)
        /\ Goto("self_heal", self_heal_update(state, out, charts), "synthesis")
    /\ UNCHANGED <<memory_threads, retrVars, auxVars>>

\* memory_update_node that waits for the write before it returns.
memory_update_node_join ==
    /\ At("memory_update")
    /\ \E out \in {"stored", "failed"} :
          memory_threads' = Append(memory_threads, out)
    /\ Goto("memory_update", << >>, "returned")
    /\ UNCHANGED <<retrVars, auxVars>>

\* The node starts the background thread and returns at once.
memory_update_node ==
    /\ At("memory_update")
    /\ memory_threads' = Append(memory_threads, "running")
    /\ Goto("memory_update", << >>, "returned")
    /\ UNCHANGED <<retrVars, auxVars>>

\* The background thread: the write is stored, or fails and is only logged.
update_memory_async ==
    /\ \E i \in 1..Len(memory_threads), out \in {"stored", "failed"} :
          /\ memory_threads[i] = "running"
          /\ memory_threads' = [memory_threads EXCEPT ![i] = out]
    /\ UNCHANGED <<state, pc, steps, ran, runs, retrVars, auxVars>>

\* A subgraph that used its supersteps without reaching END raises.
GraphRecursionError ==
    /\ pc \in Nodes
    /\ steps >= RecursionLimit
    /\ pc' = "raised"
    /\ UNCHANGED <<state, steps, ran, runs, memory_threads, retrVars, auxVars>>

\* ------------------------------------------------------------------------
\* Retrieval engine: QdrantClient and Retriever
\* ------------------------------------------------------------------------
Scale == 10 * 10 * 10
TOP_K_INITIAL == 30
HYBRID_SEARCH_ALPHA == 700
RERANK_SEMANTIC_WEIGHT == 600
MEMORY_LIMIT == 5

\* Bounds of the vector index
MaxPerCompany == 6
MaxConversations == 2

Min(a, b) == IF a < b THEN a ELSE b
Max(a, b) == IF a > b THEN a ELSE b

\* str.lower() on the company names that occur
Lower(c) ==
    IF c = "Apple" THEN "apple"
    ELSE IF c = "Microsoft" THEN "microsoft"
    ELSE c

LowerAll(cs) == [i \in 1..Len(cs) |-> Lower(cs[i])]

InSeq(x, seq) == \E i \in 1..Len(seq) : seq[i] = x

RECURSIVE SumSeq(_)
SumSeq(seq) == IF seq = <<>> THEN 0 ELSE Head(seq) + SumSeq(Tail(seq))

RECURSIVE ISqrtIn(_, _, _)
ISqrtIn(lo, hi, v) ==
    IF lo >= hi THEN lo
    ELSE LET mid == (lo + hi + 1) \div 2
         IN IF mid * mid <= v THEN ISqrtIn(mid, hi, v)
                              ELSE ISqrtIn(lo, mid - 1, v)

\* square root of a fixed-point number, as a fixed-point number
ISqrt(v) == ISqrtIn(0, Min(v, 46000), v)

\* list.sort(key=lambda x: x[field], reverse=True): stable, descending
RECURSIVE InsertDesc(_, _, _)
InsertDesc(sorted, x, field) ==
    IF sorted = <<>> THEN <<x>>
    ELSE IF Head(sorted)[field] >= x[field]
            THEN <<Head(sorted)>> \o InsertDesc(Tail(sorted), x, field)
            ELSE <<x>> \o sorted

RECURSIVE SortDescFrom(_, _, _)
SortDescFrom(seq, field, acc) ==
    IF seq = <<>> THEN acc
    ELSE SortDescFrom(Tail(seq), field, InsertDesc(acc, Head(seq), field))

SortDesc(seq, field) == SortDescFrom(seq, field, <<>>)

Take(seq, n) == SubSeq(seq, 1, Min(n, Len(seq)))

\* Filter without the user_id condition.
\* (year_range before year, company only without a companies list)
_build_query_filter_no_user(user_id, company, companies, year, year_range) ==
    [user_id |-> None,
     fiscal_year_range |-> year_range,
     fiscal_year |-> IF year_range = None THEN year ELSE None,
     company |-> IF company # "" /\ Len(companies) = 0
                    THEN Some(Lower(company)) ELSE None]

\* The must-conditions of the Qdrant filter.
_build_query_filter(user_id, company, companies, year, year_range) ==
    [user_id |-> Some(user_id),
     fiscal_year_range |-> year_range,
     fiscal_year |-> IF year_range = None THEN year ELSE None,
     company |-> IF company # "" /\ Len(companies) = 0
                    THEN Some(Lower(company)) ELSE None]

\* A point satisfies every must-condition of the filter.
Matches(point, filter) ==
    /\ filter.user_id # None => point.user_id = filter.user_id[1]
    /\ filter.fiscal_year_range # None =>
          /\ point.fiscal_year >= filter.fiscal_year_range[1][1]
          /\ point.fiscal_year <= filter.fiscal_year_range[1][2]
    /\ filter.fiscal_year # None => point.fiscal_year = filter.fiscal_year[1]
    /\ filter.company # None => point.company = filter.company[1]

\* The index answers with the matching points, best vector score first.
client_search(points, filter, limit) ==
    Take(SortDesc(SelectSeq(points, LAMBDA p : Matches(p, filter)), "score"),
         limit)

\* target_companies of search and hybrid_search
TargetCompanies(company, companies) ==
    IF Len(companies) > 0 THEN LowerAll(companies)
    ELSE IF company # "" THEN <<Lower(company)>>
    ELSE <<>>

OfCompany(results, c) == SelectSeq(results, LAMBDA r : Lower(r.company) = c)

\* target companies without repeats, in first-occurrence order (dict keys)
RECURSIVE Keys(_)
Keys(cs) ==
    IF cs = <<>> THEN <<>>
    ELSE LET rest == Keys(SubSeq(cs, 1, Len(cs) - 1))
         IN IF InSeq(cs[Len(cs)], rest) THEN rest
            ELSE Append(rest, cs[Len(cs)])

\* z-score of the scores of one company's results
NormalizeCompany(company_results) ==
    LET n == Len(company_results)
        scores == [i \in 1..n |-> company_results[i].score]
        mean_score == SumSeq(scores) \div n
        variance == SumSeq([i \in 1..n |->
                        (scores[i] - mean_score) * (scores[i] - mean_score)]) \div n
        std_score == ISqrt(variance)
    IN [i \in 1..n |->
          [company_results[i] EXCEPT !.score =
              IF std_score > 0
                 THEN ((scores[i] - mean_score) * Scale) \div std_score
                 ELSE 0]]

RECURSIVE NormalizeEach(_, _)
NormalizeEach(results, companies) ==
    IF companies = <<>> THEN <<>>
    ELSE LET company_results == OfCompany(results, Head(companies))
         IN (IF company_results = <<>> THEN <<>>
             ELSE NormalizeCompany(company_results))
            \o NormalizeEach(results, Tail(companies))

_normalize_scores_per_company(results, target_companies) ==
    NormalizeEach(results, Keys(LowerAll(target_companies)))

RECURSIVE MaxLen(_, _)
MaxLen(lists, companies) ==
    IF companies = <<>> THEN 0
    ELSE Max(Len(lists[Head(companies)]), MaxLen(lists, Tail(companies)))

\* A visit that hands out even shares only and leaves the remainder unused.
BalanceVisit_even_share_only(b, lists, company, round_idx, top_k, per_company_k) ==
    IF Len(b.balanced) >= top_k THEN b
    ELSE IF round_idx >= Len(lists[company]) THEN b
    ELSE IF b.taken[company] < per_company_k
       THEN [b EXCEPT !.balanced = Append(@, lists[company][round_idx + 1]),
                      !.taken[company] = @ + 1]
    ELSE b

\* One visit of the inner loop: company at round round_idx (from 0).
BalanceVisit(b, lists, company, round_idx, top_k, per_company_k) ==
    IF Len(b.balanced) >= top_k THEN b
    ELSE IF round_idx >= Len(lists[company]) THEN b
    ELSE IF b.taken[company] < per_company_k
       THEN [b EXCEPT !.balanced = Append(@, lists[company][round_idx + 1]),
                      !.taken[company] = @ + 1]
    ELSE IF b.remainder > 0 /\ b.taken[company] = per_company_k
       THEN [b EXCEPT !.balanced = Append(@, lists[company][round_idx + 1]),
                      !.taken[company] = @ + 1,
                      !.remainder = @ - 1]
    ELSE b

RECURSIVE BalanceLoop(_, _, _, _, _, _, _)
BalanceLoop(k, last, b, lists, targets, top_k, per_company_k) ==
    IF k > last THEN b
    ELSE BalanceLoop(k + 1, last,
                     BalanceVisit(b, lists, targets[(k % Len(targets)) + 1],
                                  k \div Len(targets), top_k, per_company_k),
                     lists, targets, top_k, per_company_k)

\* _balance_results that hands out the slots by score alone.
_balance_results_by_score(results, target_companies, top_k) ==
    Take(SortDesc(SelectSeq(results,
                     LAMBDA r : InSeq(Lower(r.company), LowerAll(target_companies))),
                  "score"), top_k)

\* Round-robin interleaving of the target companies' results.
_balance_results(results, target_companies, top_k) ==
    LET targets == LowerAll(target_companies)
        names == {targets[i] : i \in 1..Len(targets)}
        lists == [c \in names |-> SortDesc(OfCompany(results, c), "score")]
        per_company_k == Max(1, top_k \div Len(targets))
        remainder == top_k % Len(targets)
        max_available == MaxLen(lists, targets)
        start == [balanced |-> <<>>, taken |-> [c \in names |-> 0],
                  remainder |-> remainder]
        b == BalanceLoop(0, max_available * Len(targets) - 1, start, lists,
                         targets, top_k, per_company_k)
    IN Take(b.balanced, top_k)

\* The chunk dict built from an index point.
ChunkOfPoint(p) ==
    [id |-> p.id, user_id |-> p.user_id, company |-> p.company,
     fiscal_year |-> p.fiscal_year, keyword |-> p.keyword,
     score |-> p.score, rerank_score |-> 0]

\* QdrantClient.search
search(points, user_id, top_k, company, companies, year, year_range) ==
    LET query_filter == _build_query_filter(user_id, company, companies,
                                            year, year_range)
        target_companies == TargetCompanies(company, companies)
        found == client_search(points, query_filter,
                     IF Len(target_companies) > 1 THEN top_k * 3 ELSE top_k)
        chunks == [i \in 1..Len(found) |-> ChunkOfPoint(found[i])]
        filtered == IF Len(companies) > 0
                       THEN SelectSeq(chunks, LAMBDA r :
                               InSeq(Lower(r.company), LowerAll(companies)))
                       ELSE chunks
    IN IF Len(target_companies) > 1
          THEN _balance_results(
                   _normalize_scores_per_company(filtered, target_companies),
                   target_companies, top_k)
          ELSE Take(SortDesc(filtered, "score"), top_k)

\* a cosine score below 0 is mapped into [0, 1]
NormalizeSemantic(semantic_score) ==
    IF semantic_score < 0
       THEN Max(0, Min(Scale, (semantic_score + Scale) \div 2))
       ELSE semantic_score

Blend(weight, semantic_score, keyword_score) ==
    (weight * NormalizeSemantic(semantic_score)
        + (Scale - weight) * keyword_score) \div Scale

\* QdrantClient.hybrid_search, after its call of search
hybrid_scoring(semantic_results, top_k, company, companies) ==
    LET target_companies == TargetCompanies(company, companies)
        scored_results ==
            [i \in 1..Len(semantic_results) |->
                [semantic_results[i] EXCEPT !.score =
                    Blend(HYBRID_SEARCH_ALPHA, semantic_results[i].score,
                          semantic_results[i].keyword)]]
    IN IF Len(target_companies) > 1
          THEN _balance_results(
                   _normalize_scores_per_company(scored_results, target_companies),
                   target_companies, top_k)
          ELSE Take(SortDesc(scored_results, "score"), top_k)

\* Reranking that keeps the order it is given.
_rerank_with_keywords_keep_order(rs) ==
    [i \in 1..Len(rs) |->
        [rs[i] EXCEPT !.rerank_score =
            Blend(RERANK_SEMANTIC_WEIGHT, rs[i].score, rs[i].keyword)]]

\* Retriever._rerank_with_keywords
_rerank_with_keywords(rs) ==
    SortDesc([i \in 1..Len(rs) |->
                [rs[i] EXCEPT !.rerank_score =
                    Blend(RERANK_SEMANTIC_WEIGHT, rs[i].score, rs[i].keyword)]],
             "rerank_score")

\* The company filter Retriever.retrieve passes on: the explicit list, else
\* a list of several extracted companies, else the single company.
CompanyFilter(r) ==
    IF Len(r.companies) > 0 THEN [company |-> "", companies |-> r.companies]
    ELSE IF Len(r.extracted_companies) > 1
       THEN [company |-> "", companies |-> r.extracted_companies]
    ELSE [company |-> IF r.company # "" THEN r.company
                      ELSE IF Len(r.extracted_companies) = 1
                         THEN r.extracted_companies[1] ELSE "",
          companies |-> <<>>]

\* ------------------------------------------------------------------------
\* The vector index and the requests made to the retrieval engine
\* ------------------------------------------------------------------------
Tenants == {"u1", "u2"}

\* A document chunk point: payload fields, its vector score for the query
\* and the keyword relevance of its content for the query text.
Point(id, user_id, company, j, score, keyword) ==
    [id |-> id, user_id |-> user_id, company |-> company,
     fiscal_year |-> IF j % 3 = 0 THEN 2022 ELSE 2023,
     score |-> score, keyword |-> keyword]

\* u1 holds n_apple apple chunks and n_microsoft microsoft chunks; u2 holds
\* chunks of the same companies that score best for every query.
DocumentChunks(n_apple, n_microsoft, apple_keyword, microsoft_keyword) ==
    [j \in 1..n_apple |->
        Point(j, "u1", "apple", j, 900 - 40 * (j - 1), apple_keyword)]
    \o [j \in 1..n_microsoft |->
        Point(100 + j, "u1", "microsoft", j, 880 - 40 * (j - 1), microsoft_keyword)]
    \o << Point(201, "u2", "apple", 1, 990, 900),
          Point(202, "u2", "microsoft", 2, 980, 900),
          Point(203, "u2", "apple", 3, 970, 900),
          Point(204, "u1", "tesla", 1, 950, 900) >>

Requests ==
    [user_id : Tenants,
     company : {"", "apple"},
     companies : {<<>>, <<"apple", "microsoft">>, <<"Microsoft", "apple">>},
     extracted_companies : {<<>>, <<"apple", "microsoft">>},
     year : {None, Some(2023)},
     year_range : {None, Some(<<2022, 2023>>)},
     top_k : {3, 10}]

\* Retriever.retrieve up to its call of QdrantClient.search (through
\* hybrid_search, which asks search for three times as many on a
\* multi-company query).
retrieve_search ==
    /\ rpc = "requested"
    /\ LET r == req[1]
           cf == CompanyFilter(r)
           targets == TargetCompanies(cf.company, cf.companies)
       IN retrieved' = search(store.chunks, r.user_id,
                              IF Len(targets) > 1 THEN TOP_K_INITIAL * 3
                                                  ELSE TOP_K_INITIAL,
                              cf.company, cf.companies,
                              IF r.year_range = None THEN r.year ELSE None,
                              r.year_range)
    /\ rpc' = "searched"
    /\ UNCHANGED <<store, req, memory, orchVars, auxVars>>

\* QdrantClient.hybrid_search: keyword scoring, normalisation, balancing.
retrieve_hybrid ==
    /\ rpc = "searched"
    /\ LET cf == CompanyFilter(req[1])
       IN retrieved' = hybrid_scoring(retrieved, TOP_K_INITIAL,
                                      cf.company, cf.companies)
    /\ rpc' = "hybrid"
    /\ UNCHANGED <<store, req, memory, orchVars, auxVars>>

\* Retriever.retrieve: rerank and cut to top_k.
retrieve_rerank ==
    /\ rpc = "hybrid"
    /\ retrieved' = Take(_rerank_with_keywords(retrieved), req[1].top_k)
    /\ rpc' = "returned"
    /\ UNCHANGED <<store, req, memory, orchVars, auxVars>>

\* MemoryManager.store_conversation: the row and its index point carry the
\* user_id of the storing run.
store_conversation ==
    /\ rpc # "idle"
    /\ Len(store.conversations) < MaxConversations
    /\ \E u \in Tenants :
          LET id == Len(store.conversations) + 1
          IN store' = [store EXCEPT
                 !.conversations = Append(@, [id |-> id, user_id |-> u]),
                 !.memory_points = Append(@, [id |-> id, user_id |-> u,
                                              score |-> 500 + id])]
    /\ UNCHANGED <<req, rpc, retrieved, memory, orchVars, auxVars>>

\* MemoryManager.get_relevant_memory: index search filtered by user_id,
\* then the rows of the ids found.
relevant_memory(user_id) ==
    LET found == Take(SortDesc(SelectSeq(store.memory_points,
                                   LAMBDA p : p.user_id = user_id), "score"),
                      MEMORY_LIMIT)
        ids == {found[i].id : i \in 1..Len(found)}
    IN SelectSeq(store.conversations, LAMBDA row : row.id \in ids)

get_relevant_memory ==
    /\ rpc # "idle"
    /\ memory' = relevant_memory(req[1].user_id)
    /\ memory' # memory
    /\ UNCHANGED <<store, req, rpc, retrieved, orchVars, auxVars>>

\* The next request to the same index, by any tenant.
new_request ==
    /\ rpc = "returned"
    /\ \E r \in Requests : req' = Some(r)
    /\ rpc' = "requested"
    /\ retrieved' = <<>>
    /\ memory' = <<>>
    /\ UNCHANGED <<store, orchVars, auxVars>>

OrchestratorIdle ==
    /\ state = AgentState("", None)
    /\ pc = "idle"
    /\ steps = 0
    /\ ran = <<>>
    /\ runs = [n \in Nodes |-> 0]
    /\ memory_threads = <<>>

\* Chunks a tenant holds of one company: a single one, or enough to fill
\* half of a ten-chunk answer.
ChunkCounts == {1} \cup 5..MaxPerCompany

InitRetrieve ==
    /\ \E n_apple \in ChunkCounts, n_microsoft \in ChunkCounts,
          keywords \in {<<500, 500>>, <<800, 200>>, <<200, 800>>} :
          store = [chunks |-> DocumentChunks(n_apple, n_microsoft,
                                             keywords[1], keywords[2]),
                   conversations |-> <<>>,
                   memory_points |-> <<>>]
    /\ \E r \in Requests : req = Some(r)
    /\ rpc = "requested"
    /\ retrieved = <<>>
    /\ memory = <<>>
    /\ OrchestratorIdle
    /\ AuxIdle

NextRetrieve ==
    \/ retrieve_search
    \/ retrieve_hybrid
    \/ retrieve_rerank
    \/ store_conversation
    \/ get_relevant_memory
    \/ new_request

SpecRetrieve == InitRetrieve /\ [][NextRetrieve]_vars

\* ------------------------------------------------------------------------
\* Specifications of the orchestrator
\* ------------------------------------------------------------------------
RetrieveIdle ==
    /\ store = <<>>
    /\ req = None
    /\ rpc = "idle"
    /\ retrieved = <<>>
    /\ memory = <<>>

OrchestratorStart(user_id, error) ==
    /\ state = AgentState(user_id, error)
    /\ pc = "memory_and_query"
    /\ steps = 0
    /\ ran = <<"agent1">>
    /\ runs = [n \in Nodes |-> 0]
    /\ memory_threads = <<>>

\* run_query: the error field starts as None.
Init ==
    /\ \E u \in UserIds : OrchestratorStart(u, None)
    /\ RetrieveIdle
    /\ AuxIdle

\* The compiled main graph invoked on any initial state.
InitGraph ==
    /\ \E u \in UserIds, e \in {None, Some("error")} : OrchestratorStart(u, e)
    /\ RetrieveIdle
    /\ AuxIdle

Next ==
    \/ memory_check_and_query_processing_node
    \/ retrieval_node
    \/ validation_node
    \/ refinement_node
    \/ analysis_node
    \/ analysis_validation_node
    \/ text_explanation_node
    \/ synthesis_node
    \/ quality_check_node
    \/ self_heal_node
    \/ memory_update_node
    \/ update_memory_async
    \/ GraphRecursionError

Spec == Init /\ [][Next]_vars

SpecGraph == InitGraph /\ [][Next]_vars

\* ------------------------------------------------------------------------
\* Properties of the orchestrator
\* ------------------------------------------------------------------------
IsPrefix(a, b) == Len(a) <= Len(b) /\ \A i \in 1..Len(a) : a[i] = b[i]

Stages == <<"agent1", "agent2", "agent3">>

\* The retrieval stage has ended normally (its subgraph reached END).
Agent1Ended == Len(ran) >= 2 \/ pc = "returned"

RaisedIn(stage) == pc = "raised" /\ ran[Len(ran)] = stage

\* C1: the retrieve/validate/refine loop runs validation at most 3 times,
\* retrieval_attempts never exceeds 3, the stage is over once the third
\* validation has run, and the loop never uses up the recursion limit.
C1_RetrievalLoopBounded ==
    /\ runs["validation"] <= MaxRetrievalAttempts
    /\ state.retrieval_attempts <= MaxRetrievalAttempts
    /\ state.retrieval_attempts = runs["validation"]
    /\ (runs["validation"] = MaxRetrievalAttempts => pc \notin Agent1Nodes)
    /\ (pc \in Agent1Nodes => steps < RecursionLimit)
    /\ (RaisedIn("agent1") => runs["validation"] = 0)

C1_Witness ==
    /\ runs["validation"] = MaxRetrievalAttempts
    /\ runs["refinement"] = 2
    /\ pc = "analysis"

\* C2: self_heal runs at most 2 times, self_heal_attempts never exceeds 2,
\* and the generation stage is never aborted by the recursion limit.
C2_SelfHealLoopBounded ==
    /\ runs["self_heal"] <= MaxSelfHealAttempts
    /\ state.self_heal_attempts <= MaxSelfHealAttempts
    /\ ~RaisedIn("agent3")

\* C3: when the charts are still invalid after the self-heal bound is used
\* up, the generation stage ends with response_valid = TRUE.
C3_ForceAcceptCharts ==
    (/\ pc = "returned"
     /\ runs["memory_update"] = 1
     /\ state.self_heal_attempts >= MaxSelfHealAttempts
     /\ state.response # None
     /\ ChartsErrors(state.response[1].charts, 1) # <<>>)
        => state.response_valid

\* C4: whenever the retrieval stage has ended, retrieval_sufficient is TRUE.
C4_ForcedSufficiency == Agent1Ended => state.retrieval_sufficient

\* the third validation was a validation error with nothing retrieved
C4_Witness ==
    /\ Agent1Ended
    /\ state.retrieval_attempts = MaxRetrievalAttempts
    /\ state.retrieved_context = 0
    /\ ~state.is_decomposed
    /\ state.gaps = {}

\* C5: in single-query mode, when the second validation reports the same
\* non-empty gap set as the first, it sets retrieval_sufficient and the
\* retrieval stage ends with that validation.
C5_NoProgressShortCircuit ==
    [][(/\ pc = "validation"
        /\ pc' # "validation"
        /\ ~state.is_decomposed
        /\ state.retrieval_attempts = 1
        /\ state'.retrieval_attempts = 2
        /\ state.gaps # {}
        /\ state'.gaps = state.gaps)
          => (state'.retrieval_sufficient /\ pc' \notin Agent1Nodes)]_vars

\* C6: a run with a valid user_id never raises to the caller, and when it
\* returns the final state holds a response.
C6_BestEffortAnswer ==
    state.user_id # "" =>
        /\ pc # "raised"
        /\ (pc = "returned" => state.response # None)

\* C7: the stages run in the order retrieval, analysis, generation, each at
\* most once; with the error field set nothing after retrieval runs (no
\* analysis, no generation, no memory update); with no error field set a
\* run that returns has run all three.
C7_Composition ==
    /\ IsPrefix(ran, Stages)
    /\ (state.error # None =>
            /\ ran = <<"agent1">>
            /\ \A n \in Agent2Nodes \cup Agent3Nodes : runs[n] = 0
            /\ memory_threads = <<>>)
    /\ (pc = "returned" /\ state.error = None => ran = Stages)

C7_Witness ==
    /\ pc = "returned"
    /\ state.error # None
    /\ runs["validation"] >= 1

\* C8: a run with a missing user_id ends with the error field set, and
\* neither analysis nor generation runs for it.
C8_MissingUserIdFatal ==
    state.user_id = "" =>
        /\ (pc = "returned" => state.error # None)
        /\ \A n \in Agent2Nodes \cup Agent3Nodes : runs[n] = 0

\* ------------------------------------------------------------------------
\* Properties of the retrieval engine
\* ------------------------------------------------------------------------
CountOf(rs, c) == Len(OfCompany(rs, c))

\* C9: every chunk a request gets back from the index, at every stage of
\* retrieval, and every conversation its memory check gets back, is stored
\* under the requesting user's user_id.
C9_TenantIsolation ==
    rpc # "idle" =>
        /\ \A i \in 1..Len(retrieved) : retrieved[i].user_id = req[1].user_id
        /\ \A i \in 1..Len(memory) : memory[i].user_id = req[1].user_id

\* u1 retrieved chunks and memories while u2 holds both kinds of item
C9_Witness ==
    /\ rpc = "returned"
    /\ req[1].user_id = "u1"
    /\ Len(retrieved) > 0
    /\ Len(memory) > 0
    /\ \E i \in 1..Len(store.conversations) :
          store.conversations[i].user_id = "u2"

\* The candidates of company c for the request: the points of the index
\* that pass the request's filters.
Candidates(r, c) ==
    LET cf == CompanyFilter(r)
    IN SelectSeq(store.chunks, LAMBDA p :
          /\ Matches(p, _build_query_filter(r.user_id, cf.company, cf.companies,
                         IF r.year_range = None THEN r.year ELSE None,
                         r.year_range))
          /\ Lower(p.company) = c)

\* C10: for a request with exactly 2 target companies and top_k = 10, the
\* returned list holds exactly 5 chunks of each company whenever each has
\* at least 5 candidates.
C10_BalanceInvariant ==
    (/\ rpc = "returned"
     /\ req[1].top_k = 10
     /\ LET cf == CompanyFilter(req[1])
        IN /\ Len(cf.companies) = 2
           /\ \A i \in 1..2 :
                 Len(Candidates(req[1], Lower(cf.companies[i]))) >= 5)
      => LET cf == CompanyFilter(req[1])
         IN \A i \in 1..2 : CountOf(retrieved, Lower(cf.companies[i])) = 5

\* The request targets several companies.
MultiCompany(r) == Len(TargetCompanies(CompanyFilter(r).company,
                                       CompanyFilter(r).companies)) > 1

\* C11: for a request with n >= 2 target companies and top_k >= n, the
\* returned list holds at least one chunk of every target company that has
\* at least one candidate after filtering.
C11_NoStarvation ==
    (/\ rpc = "returned"
     /\ MultiCompany(req[1])
     /\ req[1].top_k >= Len(CompanyFilter(req[1]).companies))
      => \A i \in 1..Len(CompanyFilter(req[1]).companies) :
            LET c == Lower(CompanyFilter(req[1]).companies[i])
            IN Len(Candidates(req[1], c)) >= 1 => CountOf(retrieved, c) >= 1

Ids(rs) == [i \in 1..Len(rs) |-> rs[i].id]

\* C12: for a multi-company request the returned list is a prefix of the
\* round-robin interleaving that balancing produced: the step from the
\* balanced list to the returned list does not reorder it.
C12_NoResortAfterBalancing ==
    [][(rpc = "hybrid" /\ rpc' = "returned" /\ MultiCompany(req[1]))
          => IsPrefix(Ids(retrieved'), Ids(retrieved))]_vars

\* ------------------------------------------------------------------------
\* Parallel batches: sub-query retrieval and chart generation
\* ------------------------------------------------------------------------
\* Bounds of a batch
MaxTasks == 2
MaxTaskChunks == 2

CONTENT_HASH_LENGTH == 200

\* A chunk's content is a sequence of blocks of BlockChars characters.
BlockChars == 10 * 10
Contents == {<<"a", "a">>, <<"a", "a", "x">>, <<"a", "b">>}

\* content[:n]
Slice(content, n) == SubSeq(content, 1, Min(Len(content), n \div BlockChars))

BlockCode(b) == IF b = "a" THEN 1 ELSE IF b = "b" THEN 2 ELSE 3

\* hash() of a string: equal strings give equal values.
RECURSIVE HashFrom(_, _)
HashFrom(h, s) ==
    IF s = <<>> THEN h
    ELSE HashFrom((h * 31 + BlockCode(Head(s))) % 65521, Tail(s))

hash(s) == HashFrom(7, s)

RECURSIVE DedupFrom(_, _, _, _)
DedupFrom(chunks, seen_content, unique_chunks, n) ==
    IF chunks = <<>> THEN unique_chunks
    ELSE LET content_hash == hash(Slice(Head(chunks).content, n))
         IN IF content_hash \notin seen_content
               THEN DedupFrom(Tail(chunks), seen_content \cup {content_hash},
                              Append(unique_chunks, Head(chunks)), n)
               ELSE DedupFrom(Tail(chunks), seen_content, unique_chunks, n)

\* Deduplication by the hash of the whole content.
_deduplicate_chunks_by_content(chunks) ==
    DedupFrom(chunks, {}, <<>>, 10 * CONTENT_HASH_LENGTH)

_deduplicate_chunks(chunks) ==
    DedupFrom(chunks, {}, <<>>, CONTENT_HASH_LENGTH)

_convert_to_retrieved_chunks(results) ==
    [k \in 1..Len(results) |->
        [id |-> results[k].id, content |-> results[k].content,
         score |-> results[k].score,
         sub_query_intent |-> results[k].sub_query_intent,
         sub_query |-> results[k].sub_query]]

\* Strings that are searched with `in` are sequences of words.
\* The text of the sub-query at each position of a decomposition.
SubQueryTexts == <<<<"apple", "revenue">>, <<"microsoft", "revenue">>,
                   <<"alphabet", "margin">>>>

\* Intent tags the decomposer gives: revenue, income, revenue_growth.  The
\* second sub-query carries any of them, the others the tag of their place.
IntentTags == <<<<"revenue">>, <<"income">>, <<"revenue", "growth">>>>

DecomposedSubQueries(n, second_intent) ==
    [i \in 1..n |->
        [sub_query |-> SubQueryTexts[i],
         intent |-> IF i = 2 THEN second_intent ELSE IntentTags[i],
         augmented_query |-> "augmented"]]

\* retrieve_for_subquery of the sub-query at place `task`: it raises, or
\* returns chunks tagged with the sub-query's intent and text.
SubQueryOutcome(task, sq, choice) ==
    [raised |-> choice.raised,
     chunks |-> [pos \in 1..Len(choice.contents) |->
                   [id |-> 10 * task + pos, content |-> choice.contents[pos],
                    score |-> 900 - 100 * pos - 10 * task,
                    sub_query_intent |-> sq.intent,
                    sub_query |-> sq.sub_query]]]

SubQueryChoices ==
    {[raised |-> TRUE, contents |-> <<>>]}
    \cup {[raised |-> FALSE, contents |-> contents] :
             contents \in SeqsUpTo(Contents, MaxTaskChunks)}

\* The body of the as_completed loop of _retrieve_decomposed_query with no
\* except clause around future.result().
collect_chunks_no_except(all_chunks_dict, outcome) ==
    [raised |-> outcome.raised,
     acc |-> all_chunks_dict \o outcome.chunks]

\* The body of the as_completed loop of _retrieve_decomposed_query.
collect_chunks(all_chunks_dict, outcome) ==
    [raised |-> FALSE,
     acc |-> IF outcome.raised THEN all_chunks_dict
                               ELSE all_chunks_dict \o outcome.chunks]

\* What _retrieve_decomposed_query returns: sub_query_results is a dict
\* with one key per intent of the sub-queries.
_retrieve_decomposed_query(all_chunks_dict, sub_queries) ==
    LET unique_chunks_dict == SortDesc(_deduplicate_chunks(all_chunks_dict),
                                       "score")
        retrieved_chunks == _convert_to_retrieved_chunks(unique_chunks_dict)
    IN [retrieved_context |-> retrieved_chunks,
        sub_query_results |->
            [intent \in {sub_queries[i].intent : i \in 1..Len(sub_queries)} |->
                SelectSeq(retrieved_chunks,
                          LAMBDA c : c.sub_query_intent = intent)]]

\* x in s, for strings as sequences of words: s holds the words of x in a row.
Contains(s, x) ==
    \E k \in 0..(Len(s) - Len(x)) : SubSeq(s, k + 1, k + Len(x)) = x

CountWord(n) == IF n = 0 THEN "0" ELSE IF n = 1 THEN "1" ELSE "many"

\* The gap message of validation_node for a sub-query that has n chunks.
GapMessage(sq, n) ==
    <<"Sub-query">> \o sq.sub_query \o <<"(intent:">> \o sq.intent
        \o <<"):", "insufficient", "results", CountWord(n), "chunks">>

\* The decomposed branch of validation_node: the chunks of a sub-query are
\* looked up under its intent.
validation_node_decomposed(sub_queries, sub_query_results, retrieval_attempts) ==
    LET relevant_chunks(sq) == Get(sub_query_results, sq.intent, <<>>)
        short == SelectSeq([i \in 1..Len(sub_queries) |-> i],
                     LAMBDA i : Len(relevant_chunks(sub_queries[i]))
                                    < MinChunksPerSubQuery)
        gaps == [k \in 1..Len(short) |->
                    GapMessage(sub_queries[short[k]],
                               Len(relevant_chunks(sub_queries[short[k]])))]
        attempts == retrieval_attempts + 1
    IN [retrieval_sufficient |->
            Len(gaps) = 0 \/ attempts >= MaxRetrievalAttempts,
        retrieval_attempts |-> attempts,
        gaps |-> gaps]

\* The decomposed branch of refinement_node: a sub-query is re-augmented
\* when its intent or its text occurs in one of the gap messages.
\*   out = "error": process_query raises while re-augmenting
refinement_node_decomposed(sub_queries, gaps, retrieval_attempts, out) ==
    LET has_gap(sq) == \E k \in 1..Len(gaps) :
                          Contains(gaps[k], sq.intent)
                              \/ Contains(gaps[k], sq.sub_query)
    IN IF retrieval_attempts >= MaxRetrievalAttempts
          THEN [retrieval_sufficient |-> TRUE]
       ELSE IF out = "error"
                 /\ \E i \in 1..Len(sub_queries) : has_gap(sub_queries[i])
          THEN [retrieval_sufficient |-> TRUE]
       ELSE [sub_queries |->
                 [i \in 1..Len(sub_queries) |->
                     IF has_gap(sub_queries[i])
                        THEN [sub_queries[i] EXCEPT
                                 !.augmented_query = "re-augmented"]
                        ELSE sub_queries[i]],
             retrieval_sufficient |-> FALSE]

\* What the model call of one chart task gives.
ChartOutcomes ==
    {[llm |-> "error", chart |-> None],
     [llm |-> "bad_json", chart |-> None],
     [llm |-> "dict", chart |-> Some(GoodChart)],
     [llm |-> "dict", chart |-> Some(ScatterChart)],
     [llm |-> "list", chart |-> Some(GoodChart)]}

\* A chart, or None when the call or the JSON parsing failed.
_generate_single_chart(outcome) ==
    IF outcome.llm \in {"dict", "list"} THEN outcome.chart ELSE None

collect_chart(charts, chart) ==
    IF chart # None THEN Append(charts, chart[1]) ELSE charts

FanAt(kind) ==
    /\ fan # None
    /\ fan[1].kind = kind
    /\ fan[1].pc = "collecting"

\* as_completed hands over the next finished sub-query task, in any order.
subquery_task_done ==
    /\ FanAt("sub_queries")
    /\ \E i \in fan[1].pending :
          LET r == collect_chunks(fan[1].acc, fan[1].tasks[i])
          IN fan' = Some([fan[1] EXCEPT
                        !.pending = @ \ {i},
                        !.acc = r.acc,
                        !.pc = IF r.raised THEN "raised" ELSE @])
    /\ UNCHANGED <<orchVars, retrVars, chat, qp, kw, svcVars>>

retrieve_decomposed_return ==
    /\ FanAt("sub_queries")
    /\ fan[1].pending = {}
    /\ fan' = Some([fan[1] EXCEPT
                  !.result = Some(_retrieve_decomposed_query(
                                      fan[1].acc, fan[1].sub_queries)),
                  !.pc = "returned"])
    /\ UNCHANGED <<orchVars, retrVars, chat, qp, kw, svcVars>>

\* validation_node on what the decomposed retrieval returned, after any
\* number of earlier attempts.
batch_validation ==
    /\ fan # None
    /\ fan[1].kind = "sub_queries"
    /\ fan[1].pc = "returned"
    /\ \E retrieval_attempts \in 0..(MaxRetrievalAttempts - 1) :
          fan' = Some([fan[1] EXCEPT
                    !.validation = Some(validation_node_decomposed(
                                       fan[1].sub_queries,
                                       fan[1].result[1].sub_query_results,
                                       retrieval_attempts)),
                    !.pc = "validated"])
    /\ UNCHANGED <<orchVars, retrVars, chat, qp, kw, svcVars>>

\* refinement_node, when should_continue_retrieval routes to it.
batch_refinement ==
    /\ fan # None
    /\ fan[1].kind = "sub_queries"
    /\ fan[1].pc = "validated"
    /\ should_continue_retrieval(fan[1].validation[1]) = "refine"
    /\ \E out \in {"ok", "error"} :
          fan' = Some([fan[1] EXCEPT
                    !.refinement = Some(refinement_node_decomposed(
                                       fan[1].sub_queries,
                                       fan[1].validation[1].gaps,
                                       fan[1].validation[1].retrieval_attempts,
                                       out)),
                    !.pc = "refined"])
    /\ UNCHANGED <<orchVars, retrVars, chat, qp, kw, svcVars>>

\* One chart task finishes (the only one, or the next of the pool).
chart_task_done ==
    /\ FanAt("charts")
    /\ \E i \in fan[1].pending :
          fan' = Some([fan[1] EXCEPT
                    !.pending = @ \ {i},
                    !.acc = collect_chart(@,
                                _generate_single_chart(fan[1].tasks[i]))])
    /\ UNCHANGED <<orchVars, retrVars, chat, qp, kw, svcVars>>

generate_charts_return ==
    /\ FanAt("charts")
    /\ fan[1].pending = {}
    /\ fan' = Some([fan[1] EXCEPT !.result = Some(fan[1].acc),
                                  !.pc = "returned"])
    /\ UNCHANGED <<orchVars, retrVars, chat, qp, kw, svcVars>>

Batch(kind, tasks, sub_queries) ==
    [kind |-> kind, tasks |-> tasks, sub_queries |-> sub_queries,
     pending |-> 1..Len(tasks),
     acc |-> <<>>, result |-> None, validation |-> None,
     refinement |-> None, pc |-> "collecting"]

\* The batch of the retrievals of `sub_queries`, the one at place i giving
\* choice[i].
SubQueryBatch(sub_queries, choice) ==
    Batch("sub_queries",
          [i \in 1..Len(sub_queries) |->
              SubQueryOutcome(i, sub_queries[i], choice[i])],
          sub_queries)

InitFanout ==
    /\ \/ \E n \in 1..MaxTasks :
            \E choice \in [1..n -> SubQueryChoices] :
               fan = Some(SubQueryBatch(DecomposedSubQueries(n, IntentTags[2]),
                                        choice))
       \/ \E n \in 0..MaxTasks :
            \E tasks \in [1..n -> ChartOutcomes] :
               fan = Some(Batch("charts", tasks, <<>>))
    /\ OrchestratorIdle
    /\ RetrieveIdle
    /\ chat = "none"
    /\ qp = <<>>
    /\ kw = <<>>
    /\ SvcIdle

NextFanout ==
    \/ subquery_task_done
    \/ retrieve_decomposed_return
    \/ chart_task_done
    \/ generate_charts_return

SpecFanout == InitFanout /\ [][NextFanout]_vars

\* One round of the retrieval loop on a decomposed query: retrieval of
\* the sub-queries, validation and, when validation asks for it, refinement.
\* The decomposer may give the second sub-query any intent tag.
InitRound ==
    /\ \E n \in 1..MaxTasks, second_intent \in Range(IntentTags) :
          \E choice \in [1..n -> SubQueryChoices] :
             fan = Some(SubQueryBatch(DecomposedSubQueries(n, second_intent),
                                      choice))
    /\ OrchestratorIdle
    /\ RetrieveIdle
    /\ chat = "none"
    /\ qp = <<>>
    /\ kw = <<>>
    /\ SvcIdle

NextRound ==
    \/ subquery_task_done
    \/ retrieve_decomposed_return
    \/ batch_validation
    \/ batch_refinement

SpecRound == InitRound /\ [][NextRound]_vars

\* ------------------------------------------------------------------------
\* Properties of the parallel batches
\* ------------------------------------------------------------------------
\* The chunks returned by the sub-query tasks that did not fail.
PooledChunks(f) ==
    UNION {{f.tasks[i].chunks[j] : j \in 1..Len(f.tasks[i].chunks)} :
             i \in {t \in 1..Len(f.tasks) : ~f.tasks[t].raised}}

SamePrefix(c, d) ==
    Slice(c.content, CONTENT_HASH_LENGTH) = Slice(d.content, CONTENT_HASH_LENGTH)

Returned(kind) ==
    /\ fan # None
    /\ fan[1].kind = kind
    /\ fan[1].pc = "returned"

\* C13: of the chunks the sub-queries of a decomposed retrieval returned,
\* those with the same first 200 characters of content are collapsed to
\* exactly one chunk of retrieved_context, a chunk with a unique prefix is
\* kept, and retrieved_context holds nothing else.
C13_DedupInPooling ==
    Returned("sub_queries") =>
        LET ctx == fan[1].result[1].retrieved_context
        IN /\ \A c \in PooledChunks(fan[1]) :
                 Cardinality({k \in 1..Len(ctx) : SamePrefix(ctx[k], c)}) = 1
           /\ \A k \in 1..Len(ctx) :
                 \E c \in PooledChunks(fan[1]) :
                     c.id = ctx[k].id /\ c.content = ctx[k].content

\* two chunks that differ after their common first 200 characters, and one
\* chunk with a prefix of its own
C13_Witness ==
    /\ Returned("sub_queries")
    /\ \E c, d, e \in PooledChunks(fan[1]) :
          /\ c.content # d.content
          /\ SamePrefix(c, d)
          /\ ~SamePrefix(c, e)
    /\ Len(fan[1].result[1].retrieved_context) = 2

\* C14: a batch never raises, whatever subset of its tasks fails; the
\* pooled sub-query result holds the content (up to the deduplication of
\* equal prefixes) of every chunk of every sub-query that succeeded, and
\* the chart batch returns exactly the charts of the tasks that succeeded.
C14_FanOutIsolation ==
    fan # None =>
        /\ fan[1].pc # "raised"
        /\ Returned("sub_queries") =>
              \A c \in PooledChunks(fan[1]) :
                 \E k \in 1..Len(fan[1].result[1].retrieved_context) :
                    SamePrefix(fan[1].result[1].retrieved_context[k], c)
        /\ Returned("charts") =>
              LET ok == {i \in 1..Len(fan[1].tasks) :
                            _generate_single_chart(fan[1].tasks[i]) # None}
                  charts == fan[1].result[1]
              IN /\ Len(charts) = Cardinality(ok)
                 /\ \A i \in ok :
                       \E k \in 1..Len(charts) :
                          charts[k] = fan[1].tasks[i].chart[1]

\* one sub-query task failed and the other one's chunks were returned
C14_Witness ==
    /\ Returned("sub_queries")
    /\ \E i, j \in 1..Len(fan[1].tasks) :
          /\ fan[1].tasks[i].raised
          /\ Len(fan[1].tasks[j].chunks) > 0
    /\ Len(fan[1].result[1].retrieved_context) > 0

\* ------------------------------------------------------------------------
\* The chat route: chat_query awaits run_query in the default executor
\* ------------------------------------------------------------------------
RunInFlight == pc \in Nodes

\* The caller disconnects while the handler awaits the executor future:
\* the await raises CancelledError and the handler answers 499.  The
\* executor thread that runs run_query is not interrupted.
chat_query_cancelled ==
    /\ chat = "awaiting"
    /\ RunInFlight
    /\ chat' = "cancelled"
    /\ UNCHANGED <<orchVars, retrVars, fan, qp, kw, svcVars>>

\* run_query has returned or raised: the handler builds its answer.
chat_query_respond ==
    /\ chat = "awaiting"
    /\ ~RunInFlight
    /\ chat' = "responded"
    /\ UNCHANGED <<orchVars, retrVars, fan, qp, kw, svcVars>>

\* The caller disconnects after the run has completed.
disconnect_after_response ==
    /\ chat = "responded"
    /\ chat' = "disconnected"
    /\ UNCHANGED <<orchVars, retrVars, fan, qp, kw, svcVars>>

\* The route passes the authenticated user's id.
InitChat ==
    /\ OrchestratorStart("u1", None)
    /\ RetrieveIdle
    /\ fan = <<>>
    /\ qp = <<>>
    /\ kw = <<>>
    /\ SvcIdle
    /\ chat = "awaiting"

NextChat ==
    \/ Next
    \/ chat_query_cancelled
    \/ chat_query_respond
    \/ disconnect_after_response

SpecChat == InitChat /\ [][NextChat]_vars

\* C15: once the caller has disconnected while the run was in flight, the
\* run does nothing more (no node runs, no memory-update thread is started,
\* no conversation record is stored); a disconnect after the run has
\* completed changes nothing of the run.
C15_Cancellation ==
    [][/\ (chat = "cancelled" => UNCHANGED orchVars)
       /\ (chat' = "disconnected" /\ chat # "disconnected"
              => UNCHANGED orchVars)]_vars

\* C16: the memory write is started at most once per run, by the step that
\* ends the generation stage (so after the last quality_check and never
\* inside the self-heal loop); that step does not wait for the write, and
\* the write, stored or failed, changes neither the response nor any other
\* part of the final state.
C16_MemoryUpdateOnce ==
    [][/\ Len(memory_threads') <= 1
       /\ (Len(memory_threads') > Len(memory_threads) =>
              /\ pc = "memory_update"
              /\ runs["quality_check"] >= 1
              /\ pc' = "returned"
              /\ memory_threads'[1] = "running")
       /\ (Len(memory_threads) >= 1 => UNCHANGED <<state, pc, steps, ran, runs>>)
      ]_vars

\* the run has returned after a self-heal, and its memory write failed
C16_Witness ==
    /\ pc = "returned"
    /\ memory_threads = <<"failed">>
    /\ runs["self_heal"] >= 1
    /\ state.response # None

\* Query processing has run and returned.
QueryProcessed ==
    /\ runs["memory_and_query"] = 1
    /\ ~(pc = "raised" /\ runs["retrieval"] = 0)

\* C17: a failed extraction call never makes the run fail in query
\* processing, and the ProcessedQuery of the fallback (query_type
\* "general") has the raw query as augmented text and no entity extracted
\* by the model.
C17_QueryProcessingFallback ==
    /\ ~(pc = "raised" /\ runs["memory_and_query"] = 1 /\ runs["retrieval"] = 0)
    /\ (/\ QueryProcessed
        /\ state.processed_query # None
        /\ state.processed_query[1].query_type = "general")
          => /\ state.processed_query[1].augmented_query = "raw"
             /\ state.processed_query[1].companies = "none"

\* C20: after query processing exactly one holds: (a) processed_query is
\* set and is_decomposed is false, or (b) is_decomposed is true, sub_queries
\* is non-empty and processed_query is null; refinement keeps it; and a
\* decomposition answer with needs_decomposition = true and no sub-query
\* gives case (a).
C20_SingleXorDecomposed ==
    /\ QueryProcessed =>
          (state.processed_query # None /\ ~state.is_decomposed)
          # (/\ state.is_decomposed
             /\ state.sub_queries # None
             /\ Len(state.sub_queries[1]) > 0
             /\ state.processed_query = None)
    /\ \A fallback \in {"ok", "invalid", "error"} :
          LET r == run_query_processing(TRUE, 0, "ok", fallback)
          IN /\ ~r.raised
             /\ r.update.processed_query # None
             /\ "is_decomposed" \notin DOMAIN r.update

\* a decomposed query has been refined and retrieved again
C20_Witness ==
    /\ QueryProcessed
    /\ state.is_decomposed
    /\ runs["refinement"] >= 1
    /\ runs["retrieval"] >= 2
    /\ state.sub_queries[1][1].augmented_query = "re-augmented"

\* ------------------------------------------------------------------------
\* Query processing: QueryProcessor.process_query and the filters that
\* Retriever.retrieve builds from it
\* ------------------------------------------------------------------------
\* Bound: how far outside the supported window the years of the model go
YearsOutside == 2

YEAR_MIN == 2015
YEAR_MAX == 2025

Years == {YEAR_MIN - YearsOutside, YEAR_MIN, 2023, YEAR_MAX,
          YEAR_MAX + YearsOutside}

YearRanges == {<<YEAR_MIN - YearsOutside, YEAR_MIN - 1>>,
               <<YEAR_MIN, YEAR_MIN + 1>>,
               <<2020, 2023>>,
               <<YEAR_MAX - 1, YEAR_MAX>>,
               <<YEAR_MAX + 1, YEAR_MAX + YearsOutside>>}

\* What the model extracts from the query text.  needs_year_expansion is
\* "true", "false" or "absent".
LlmResults ==
    [companies : {<<>>, <<"microsoft">>, <<"apple", "microsoft">>},
     year : {None} \cup {Some(y) : y \in Years},
     year_range : {None} \cup {Some(r) : r \in YearRanges},
     needs_year_expansion : {"true", "false", "absent"}]

\* QueryProcessor.process_query.  An absent company is "", an absent
\* company list <<>>, an absent year or range None.
process_query(llm_result, company, year, expand) ==
    IF expand
       THEN LET extracted_companies == llm_result.companies
                final_company ==
                    IF company # "" THEN company
                    ELSE IF Len(extracted_companies) > 0
                       THEN extracted_companies[1] ELSE ""
                final_companies ==
                    IF Len(extracted_companies) > 1 THEN extracted_companies
                                                    ELSE <<>>
                final_year == IF year # None THEN year ELSE llm_result.year
                final_year_range == llm_result.year_range
                should_expand == llm_result.needs_year_expansion = "true"
            IN IF should_expand /\ final_year_range # None
                  THEN [company |-> final_company,
                        companies |-> final_companies,
                        year |-> final_year,
                        year_range |->
                            Some(<<Max(YEAR_MIN, final_year_range[1][1] - 1),
                                   Min(YEAR_MAX, final_year_range[1][2] + 1)>>)]
               ELSE IF should_expand /\ final_year # None
                  THEN [company |-> final_company,
                        companies |-> final_companies,
                        year |-> None,
                        year_range |->
                            Some(<<Max(YEAR_MIN, final_year[1] - 1),
                                   Min(YEAR_MAX, final_year[1] + 1)>>)]
               ELSE [company |-> final_company,
                     companies |-> final_companies,
                     year |-> final_year,
                     year_range |-> final_year_range]
       ELSE [company |-> company, companies |-> <<>>,
             year |-> year, year_range |-> None]

\* Retriever.retrieve: the company and year filters it passes to the search.
retrieve_filters(processed, companies, year_range) ==
    [company_filter |->
        IF Len(companies) > 0 THEN companies
        ELSE IF Len(processed.companies) > 1 THEN processed.companies
        ELSE IF processed.company # "" THEN <<processed.company>>
        ELSE <<>>,
     year_filter |->
        IF year_range # None THEN None
        ELSE IF processed.year_range # None THEN None
        ELSE processed.year,
     final_year_range |->
        IF year_range # None THEN year_range
        ELSE processed.year_range]

\* retrieve calls process_query(query, company, year, expand=expand_query).
process_query_call ==
    /\ qp # None
    /\ qp[1].pc = "called"
    /\ qp' = Some([qp[1] EXCEPT
                 !.processed = Some(process_query(qp[1].llm_result,
                                        qp[1].company, qp[1].year,
                                        qp[1].expand_query)),
                 !.pc = "processed"])
    /\ UNCHANGED <<orchVars, retrVars, fan, chat, kw, svcVars>>

retrieve_filters_built ==
    /\ qp # None
    /\ qp[1].pc = "processed"
    /\ qp' = Some([qp[1] EXCEPT
                 !.filters = Some(retrieve_filters(qp[1].processed[1],
                                      qp[1].companies, qp[1].year_range)),
                 !.pc = "filtered"])
    /\ UNCHANGED <<orchVars, retrVars, fan, chat, kw, svcVars>>

InitQuery ==
    /\ \E company \in {"", "apple"},
          companies \in {<<>>, <<"apple", "tesla">>},
          year \in {None, Some(2023)},
          year_range \in {None, Some(<<2022, 2023>>)},
          expand_query \in BOOLEAN,
          llm_result \in LlmResults :
          qp = Some([company |-> company, companies |-> companies,
                     year |-> year, year_range |-> year_range,
                     expand_query |-> expand_query, llm_result |-> llm_result,
                     processed |-> None, filters |-> None, pc |-> "called"])
    /\ OrchestratorIdle
    /\ RetrieveIdle
    /\ fan = <<>>
    /\ chat = "none"
    /\ kw = <<>>
    /\ SvcIdle

NextQuery ==
    \/ process_query_call
    \/ retrieve_filters_built

SpecQuery == InitQuery /\ [][NextQuery]_vars

\* ------------------------------------------------------------------------
\* Properties of query processing
\* ------------------------------------------------------------------------
\* C18: when retrieve is called with an explicit company (and no company
\* list) the search targets exactly that company, and when it is called
\* with an explicit year (and no year range) the search filters on exactly
\* that year and on no range, whatever the model extracted.
C18_CallerOverridesWin ==
    (qp # None /\ qp[1].pc = "filtered") =>
        /\ (qp[1].company # "" /\ qp[1].companies = <<>>) =>
              qp[1].filters[1].company_filter = <<qp[1].company>>
        /\ (qp[1].year # None /\ qp[1].year_range = None) =>
              /\ qp[1].filters[1].year_filter = qp[1].year
              /\ qp[1].filters[1].final_year_range = None

InWindow(y) == YEAR_MIN <= y /\ y <= YEAR_MAX

Clamp(y) == Max(YEAR_MIN, Min(YEAR_MAX, y))

\* C19: with the expansion signal, a resolved range [a, b] becomes
\* [a-1, b+1] and a resolved year y becomes [y-1, y+1], clamped so that
\* both ends lie in [2015, 2025] and start <= end; without the signal the
\* year and the range are exactly the resolved ones.
C19_YearExpansionClamped ==
    (qp # None /\ qp[1].pc # "called" /\ qp[1].expand_query) =>
        LET llm_result == qp[1].llm_result
            resolved_year == IF qp[1].year # None THEN qp[1].year
                                                  ELSE llm_result.year
            resolved_range == llm_result.year_range
            p == qp[1].processed[1]
        IN IF llm_result.needs_year_expansion = "true"
              THEN /\ resolved_range # None =>
                         p.year_range = Some(<<Clamp(resolved_range[1][1] - 1),
                                               Clamp(resolved_range[1][2] + 1)>>)
                   /\ (resolved_range = None /\ resolved_year # None) =>
                         p.year_range = Some(<<Clamp(resolved_year[1] - 1),
                                               Clamp(resolved_year[1] + 1)>>)
                   /\ p.year_range # None =>
                         /\ InWindow(p.year_range[1][1])
                         /\ InWindow(p.year_range[1][2])
                         /\ p.year_range[1][1] <= p.year_range[1][2]
              ELSE /\ p.year = resolved_year
                   /\ p.year_range = resolved_range

\* ------------------------------------------------------------------------
\* Properties of one decomposed retrieval round
\* ------------------------------------------------------------------------
Validated ==
    /\ fan # None
    /\ fan[1].kind = "sub_queries"
    /\ fan[1].pc = "validated"

\* The chunks of retrieved_context that the retrieval of the sub-query at
\* place i returned.
RetrievedFor(f, i) ==
    {k \in 1..Len(f.result[1].retrieved_context) :
        \E j \in 1..Len(f.tasks[i].chunks) :
            f.tasks[i].chunks[j].id = f.result[1].retrieved_context[k].id}

\* The sub-queries with fewer than 2 chunks of their own.
ShortSubQueries(f) ==
    {i \in 1..Len(f.sub_queries) :
        Cardinality(RetrievedFor(f, i)) < MinChunksPerSubQuery}

\* The gap list names the sub-query at place i.
GapReported(gaps, sq) ==
    \E k \in 1..Len(gaps) :
        SubSeq(gaps[k], 2, 1 + Len(sq.sub_query)) = sq.sub_query

\* C21: in decomposed mode, before the attempt bound forces acceptance,
\* validation reports sufficient exactly when every sub-query has at least
\* 2 chunks that were retrieved for it, and reports a gap for exactly the
\* sub-queries that have fewer, also when two sub-queries carry the same
\* intent tag.
C21_DecomposedValidationRule ==
    (Validated
     /\ fan[1].validation[1].retrieval_attempts < MaxRetrievalAttempts)
      => /\ fan[1].validation[1].retrieval_sufficient
               <=> (ShortSubQueries(fan[1]) = {})
         /\ \A i \in 1..Len(fan[1].sub_queries) :
               GapReported(fan[1].validation[1].gaps, fan[1].sub_queries[i])
                   <=> i \in ShortSubQueries(fan[1])

\* all_chunks_dict when the tasks complete in the order of their places.
RECURSIVE PoolInOrder(_, _)
PoolInOrder(tasks, i) ==
    IF i = 0 THEN <<>>
    ELSE collect_chunks(PoolInOrder(tasks, i - 1), tasks[i]).acc

\* The intent tag that each pooled prefix carries.
Tagging(ctx) ==
    {<<Slice(ctx[k].content, CONTENT_HASH_LENGTH), ctx[k].sub_query_intent>> :
        k \in 1..Len(ctx)}

ChunkCountsOf(sub_query_results) ==
    [intent \in DOMAIN sub_query_results |-> Len(sub_query_results[intent])]

\* C24: for fixed results of the sub-query retrievals, the tagging of the
\* pooled chunks, the chunk counts per sub-query and the validation verdict
\* are those of the completion in place order, whatever the order in which
\* the retrievals completed.
C24_OrderIndependentValidation ==
    Validated =>
        LET f == fan[1]
            r == _retrieve_decomposed_query(PoolInOrder(f.tasks, Len(f.tasks)),
                                            f.sub_queries)
        IN /\ Tagging(f.result[1].retrieved_context)
                 = Tagging(r.retrieved_context)
           /\ ChunkCountsOf(f.result[1].sub_query_results)
                 = ChunkCountsOf(r.sub_query_results)
           /\ f.validation[1]
                 = validation_node_decomposed(
                       f.sub_queries, r.sub_query_results,
                       f.validation[1].retrieval_attempts - 1)

Refined ==
    /\ fan # None
    /\ fan[1].kind = "sub_queries"
    /\ fan[1].pc = "refined"

\* C27: a refinement that refines re-augments exactly the sub-queries that
\* the last validation reported as gaps and returns every other sub-query
\* as it was.
C27_SelectiveRefinement ==
    (Refined /\ "sub_queries" \in DOMAIN fan[1].refinement[1])
      => \A i \in 1..Len(fan[1].sub_queries) :
            LET before == fan[1].sub_queries[i]
                after == fan[1].refinement[1].sub_queries[i]
            IN IF GapReported(fan[1].validation[1].gaps, before)
                  THEN after = [before EXCEPT !.augmented_query = "re-augmented"]
                  ELSE after = before

\* ------------------------------------------------------------------------
\* Properties of the retrieval loop
\* ------------------------------------------------------------------------
\* The sub-queries that a gap set of a decomposed validation reports.
GapSubQueries(gaps) == {g[1] : g \in gaps}

\* C25: in decomposed mode, when the second validation reports gaps for
\* the same sub-queries as the first, the retrieval stage ends with that
\* validation: there is no third retrieval and validation.
C25_DecomposedNoProgress ==
    [][(/\ pc = "validation"
        /\ pc' # "validation"
        /\ state.is_decomposed
        /\ state.retrieval_attempts = 1
        /\ state'.retrieval_attempts = 2
        /\ state.gaps # {}
        /\ GapSubQueries(state'.gaps) = GapSubQueries(state.gaps))
          => pc' \notin Agent1Nodes]_vars

\* The last refinement could not refine: it left retrieval_sufficient set
\* for the retrieval and validation that follow it.
RefinementFailed ==
    /\ runs["refinement"] > 0
    /\ state.retrieval_sufficient

\* C26: after a refinement that could not refine and set
\* retrieval_sufficient, the validation that follows does not send the run
\* to refinement again.
C26_RefinementFailureEndsLoop ==
    [][(pc = "validation" /\ RefinementFailed) => pc' # "refinement"]_vars

\* ------------------------------------------------------------------------
\* Properties of the generation stage
\* ------------------------------------------------------------------------
\* C28: the steps after explain (synthesize, quality_check, self_heal)
\* keep the text and the sources of the response; only self_heal changes
\* the chart list, and not when the repair output is not parsable.
C28_SelfHealChartsOnly ==
    [][(pc \in {"synthesis", "quality_check", "self_heal"}
        /\ state.response # None)
          => /\ state'.response # None
             /\ state'.response[1].text = state.response[1].text
             /\ state'.response[1].sources = state.response[1].sources
             /\ (pc # "self_heal"
                   => state'.response[1].charts = state.response[1].charts)
             /\ (pc = "self_heal"
                 /\ state' = Merge(state,
                                   self_heal_update(state, "unparsable", <<>>))
                   => state'.response[1].charts = state.response[1].charts)]_vars

\* a repair replaced the invalid charts of a generated answer by valid ones
C28_Witness ==
    /\ pc = "returned"
    /\ runs["self_heal"] > 0
    /\ state.self_heal_attempts > 0
    /\ state.response # None
    /\ state.response[1].text = "generated"
    /\ state.response[1].sources = "extracted"
    /\ state.response[1].charts # <<>>
    /\ state.response_valid

\* C29: the k-th chart of the list that _generate_charts returns is the
\* chart generated for placeholder k, for every completion order of the
\* parallel generations and whichever of them fail.
C29_ChartsAlignWithPlaceholders ==
    Returned("charts") =>
        \A k \in 1..Len(fan[1].result[1]) :
            _generate_single_chart(fan[1].tasks[k]) = Some(fan[1].result[1][k])

\* ------------------------------------------------------------------------
\* Keyword scorer: KeywordSearcher.calculate_keyword_relevance
\* ------------------------------------------------------------------------
\* Bounds of the texts
MaxQueryWords == 2
MaxContentWords == 3

\* A text is a sequence of words; a token is the sequence of the words of
\* one word or of one protected phrase.
Vocabulary == {"the", "net", "income", "Apple", "report"}

stop_words == {"the"}
financial_phrases == {<<"net", "income">>}
financial_metrics == {"income"}
company_names == {"apple"}

\* Phrase protection: the words of a financial phrase become one token.
RECURSIVE Protect(_)
Protect(words) ==
    IF words = <<>> THEN <<>>
    ELSE IF Len(words) >= 2 /\ SubSeq(words, 1, 2) \in financial_phrases
       THEN <<SubSeq(words, 1, 2)>> \o Protect(SubSeq(words, 3, Len(words)))
    ELSE <<<<Head(words)>>>> \o Protect(Tail(words))

\* A protected phrase gives the phrase token and its single words.
RECURSIVE Flatten(_)
Flatten(tokens) ==
    IF tokens = <<>> THEN <<>>
    ELSE (IF Len(Head(tokens)) > 1
             THEN <<Head(tokens)>>
                      \o [i \in 1..Len(Head(tokens)) |-> <<Head(tokens)[i]>>]
             ELSE <<Head(tokens)>>)
         \o Flatten(Tail(tokens))

tokenize(text) ==
    LET text_lower == LowerAll(text)
        tokens == Protect(text_lower)
        filtered_tokens ==
            SelectSeq(tokens,
                LAMBDA t : Len(t) > 1 \/ t[1] \notin stop_words
                              \/ t[1] \in financial_metrics)
    IN Flatten(filtered_tokens)

\* Term boost, in tenths.
term_boost(term) ==
    IF term \in financial_phrases THEN 20
    ELSE IF Len(term) = 1 /\ term[1] \in financial_metrics THEN 15
    ELSE IF Len(term) = 1 /\ term[1] \in company_names THEN 18
    ELSE 10

\* math.log(10.0), in thousandths
LOG_10 == 2303

\* calculate_bm25_score without corpus statistics (k1 = 1.5, b = 0.75,
\* avg_doc_length = 100), in thousandths.
calculate_bm25_score(query_tokens, document_tokens) ==
    IF query_tokens = <<>> \/ document_tokens = <<>> THEN 0
    ELSE LET doc_length == Len(document_tokens)
             tf(term) == Cardinality({i \in 1..doc_length :
                                         document_tokens[i] = term})
             numerator(term) ==
                 (LOG_10 * tf(term) * 25 * term_boost(term)) \div 100
             denominator(term) ==
                 Scale * tf(term) + 375 + (1125 * doc_length) \div 100
             RECURSIVE Score(_)
             Score(terms) ==
                 IF terms = {} THEN 0
                 ELSE LET term == CHOOSE t \in terms : TRUE
                      IN (IF tf(term) = 0 THEN 0
                          ELSE (numerator(term) * Scale) \div denominator(term))
                         + Score(terms \ {term})
         IN Score(Range(query_tokens))

\* math.exp(-k / 4) for k = 0, 1, 2, ..., in thousandths
ExpTable == <<1000, 779, 607, 472, 368, 287, 223, 174, 135, 105, 82,
              64, 50, 39, 30, 24, 18, 14, 11, 9, 7, 5,
              4, 3, 2, 2, 2, 1, 1, 1, 1, 0, 0>>

\* math.exp(-y) for y >= 0 in thousandths, read off the table with linear
\* interpolation.
ExpNeg(y) ==
    LET k == (4 * y) \div Scale
        rest == (4 * y) % Scale
    IN IF k + 2 > Len(ExpTable) THEN 0
       ELSE ExpTable[k + 1]
              - ((ExpTable[k + 1] - ExpTable[k + 2]) * rest) \div Scale

\* The phrases of a text: its financial phrases, then every run of 2 or 3
\* of its tokens.
extract_phrases(text) ==
    LET text_lower == LowerAll(text)
        tokens == tokenize(text)
        RECURSIVE Join(_, _)
        Join(i, length) ==
            IF length = 0 THEN <<>>
            ELSE tokens[i] \o Join(i + 1, length - 1)
    IN {phrase \in financial_phrases : Contains(text_lower, phrase)}
         \cup {Join(w[1], w[2]) :
                 w \in {v \in (1..Len(tokens)) \X (2..3) :
                           v[1] + v[2] - 1 <= Len(tokens)}}

\* The bonus for the query phrases that occur in the content, in thousandths.
phrase_bonus(query, content) ==
    LET content_lower == LowerAll(content)
        RECURSIVE Bonus(_)
        Bonus(phrases) ==
            IF phrases = {} THEN 0
            ELSE LET phrase == CHOOSE ph \in phrases : TRUE
                 IN (IF ~Contains(content_lower, phrase) THEN 0
                     ELSE IF phrase \in financial_phrases THEN 300
                     ELSE Len(phrase) * 100)
                    + Bonus(phrases \ {phrase})
    IN Bonus(extract_phrases(query))

\* calculate_keyword_relevance that adds the phrase bonus without a cap.
calculate_keyword_relevance_uncapped(query, content) ==
    IF tokenize(query) = <<>> THEN 0
    ELSE (Scale * Scale) \div
             (Scale + ExpNeg(calculate_bm25_score(tokenize(query),
                                                  tokenize(content)) \div 10))
         + phrase_bonus(query, content)

\* The relevance score, in thousandths.
calculate_keyword_relevance(query, content) ==
    LET query_tokens == tokenize(query)
        content_tokens == tokenize(content)
        bm25_score == calculate_bm25_score(query_tokens, content_tokens)
        normalized_score == (Scale * Scale) \div (Scale + ExpNeg(bm25_score \div 10))
    IN IF query_tokens = <<>> THEN 0
       ELSE Min(Scale, normalized_score + phrase_bonus(query, content))

keyword_relevance_call ==
    /\ kw # None
    /\ kw[1].pc = "called"
    /\ kw' = Some([kw[1] EXCEPT
                 !.score = Some(calculate_keyword_relevance(kw[1].query,
                                                            kw[1].content)),
                 !.pc = "returned"])
    /\ UNCHANGED <<orchVars, retrVars, fan, chat, qp, svcVars>>

InitKeyword ==
    /\ \E query \in SeqsUpTo(Vocabulary, MaxQueryWords),
          content \in SeqsUpTo(Vocabulary, MaxContentWords) :
          kw = Some([query |-> query, content |-> content,
                     score |-> None, pc |-> "called"])
    /\ OrchestratorIdle
    /\ RetrieveIdle
    /\ fan = <<>>
    /\ chat = "none"
    /\ qp = <<>>
    /\ SvcIdle

NextKeyword == keyword_relevance_call

SpecKeyword == InitKeyword /\ [][NextKeyword]_vars

\* C23: the keyword score lies in [0, 1] for every query and content, and
\* is exactly 0 when the query is empty or tokenizes to nothing.
C23_KeywordScoreBounds ==
    (kw # None /\ kw[1].pc = "returned") =>
        /\ kw[1].score[1] >= 0
        /\ kw[1].score[1] <= Scale
        /\ (tokenize(kw[1].query) = <<>> => kw[1].score[1] = 0)

\* the bonus of a matched financial phrase took the sum above 1 and the
\* score was cut to 1
C23_Witness ==
    /\ kw # None
    /\ kw[1].pc = "returned"
    /\ Contains(LowerAll(kw[1].content), <<"net", "income">>)
    /\ Contains(LowerAll(kw[1].query), <<"net", "income">>)
    /\ kw[1].score[1] = Scale

\* ------------------------------------------------------------------------
\* The combined node seen with its two executor tasks
\* ------------------------------------------------------------------------
\* A future of the node's ThreadPoolExecutor: not finished yet, or finished
\* with the dict its task returned, or finished with the task's exception.
PendingFuture == [done |-> FALSE, raised |-> FALSE, update |-> << >>]

FinishedFuture(result) ==
    [done |-> TRUE, raised |-> result.raised, update |-> result.update]

\* The futures of a node that has returned are gone with its frame.
DroppedFuture == [done |-> TRUE, raised |-> FALSE, update |-> << >>]

\* What the decomposition model call can do: raise, or answer with the
\* needs_decomposition flag and a list of n sub-queries.
DecompositionCalls ==
    [raised : {TRUE}, needs_decomposition : {FALSE}, n : {0}]
      \cup [raised : {FALSE}, needs_decomposition : BOOLEAN,
            n : 0..MaxSubQueries]

\* decompose_query_if_needed with an except block that answers with a
\* decomposition into the largest number of sub-queries.
decompose_query_if_needed_decomposed_on_error(call) ==
    IF call.raised
       THEN [needs_decomposition |-> TRUE, n |-> MaxSubQueries]
       ELSE [needs_decomposition |-> call.needs_decomposition, n |-> call.n]

\* decompose_query_if_needed: the model's answer, or no decomposition and
\* no sub-queries when the call raised.
decompose_query_if_needed(call) ==
    IF call.raised
       THEN [needs_decomposition |-> FALSE, n |-> 0]
       ELSE [needs_decomposition |-> call.needs_decomposition, n |-> call.n]

\* The node has submitted run_memory_check and run_query_processing.
SubmittedTasks ==
    [kind |-> "join", pc |-> "submitted",
     memory_future |-> PendingFuture, query_future |-> PendingFuture,
     decomposition_result |-> None, decomposition_failed |-> FALSE]

\* The node may leave the `with` block and merge.
with_block_exits_memory_only(f) == f.memory_future.done

with_block_exits(f) == f.memory_future.done /\ f.query_future.done

\* The node starts and submits its two tasks to the executor.
executor_submit ==
    /\ At("memory_and_query")
    /\ fan = << >>
    /\ fan' = Some(SubmittedTasks)
    /\ UNCHANGED <<orchVars, retrVars, chat, qp, kw, svcVars>>

\* run_memory_check runs to its end; an exception gives no history.
run_memory_check ==
    /\ fan # << >>
    /\ fan[1].kind = "join" /\ fan[1].pc = "submitted"
    /\ ~fan[1].memory_future.done
    /\ \E mem \in {"found", "empty", "error"} :
         fan' = Some([fan[1] EXCEPT !.memory_future =
                   FinishedFuture(
                     [raised |-> FALSE,
                      update |-> [relevant_history |->
                                     IF mem = "found" THEN Some(state.user_id)
                                                      ELSE None]])])
    /\ UNCHANGED <<orchVars, retrVars, chat, qp, kw, svcVars>>

\* Step 1 of run_query_processing: the call of decompose_query_if_needed.
run_query_processing_decompose ==
    /\ fan # << >>
    /\ fan[1].kind = "join" /\ fan[1].pc = "submitted"
    /\ fan[1].decomposition_result = None
    /\ \E call \in DecompositionCalls :
         fan' = Some([fan[1] EXCEPT
                   !.decomposition_result = Some(decompose_query_if_needed(call)),
                   !.decomposition_failed = call.raised])
    /\ UNCHANGED <<orchVars, retrVars, chat, qp, kw, svcVars>>

\* The rest of run_query_processing, from the test of the decomposition
\* result to the task's return or exception.
run_query_processing_rest ==
    /\ fan # << >>
    /\ fan[1].kind = "join" /\ fan[1].pc = "submitted"
    /\ fan[1].decomposition_result # None
    /\ ~fan[1].query_future.done
    /\ \E llm \in {"ok", "error"}, fallback \in {"ok", "invalid", "error"} :
         LET decomposition_result == fan[1].decomposition_result[1]
         IN fan' = Some([fan[1] EXCEPT !.query_future =
                      FinishedFuture(
                        run_query_processing(
                          decomposition_result.needs_decomposition,
                          decomposition_result.n, llm, fallback))])
    /\ UNCHANGED <<orchVars, retrVars, chat, qp, kw, svcVars>>

\* The `with` block is left when the executor has shut down, the two
\* results are taken and merged, and the node returns (or raises what
\* run_query_processing raised).
memory_check_and_query_processing_return ==
    /\ At("memory_and_query")
    /\ fan # << >>
    /\ fan[1].kind = "join" /\ fan[1].pc = "submitted"
    /\ with_block_exits(fan[1])
    /\ LET memory_result == fan[1].memory_future.update
           query_result == fan[1].query_future.update
           merged == [k \in DOMAIN memory_result \cup DOMAIN query_result |->
                         IF k \in DOMAIN query_result
                            THEN query_result[k]
                            ELSE memory_result[k]]
       IN  IF fan[1].memory_future.raised \/ fan[1].query_future.raised
              THEN Raise("memory_and_query")
              ELSE Goto("memory_and_query", merged, "retrieval")
    /\ fan' = Some([fan[1] EXCEPT !.pc = "returned",
                                  !.memory_future = DroppedFuture,
                                  !.query_future = DroppedFuture,
                                  !.decomposition_result = None])
    /\ UNCHANGED <<memory_threads, retrVars, chat, qp, kw, svcVars>>

InitJoin == Init

NextJoin ==
    \/ executor_submit
    \/ run_memory_check
    \/ run_query_processing_decompose
    \/ run_query_processing_rest
    \/ memory_check_and_query_processing_return
    \/ retrieval_node
    \/ validation_node
    \/ refinement_node
    \/ analysis_node
    \/ analysis_validation_node
    \/ text_explanation_node
    \/ synthesis_node
    \/ quality_check_node
    \/ self_heal_node
    \/ memory_update_node
    \/ update_memory_async
    \/ GraphRecursionError

SpecJoin == InitJoin /\ [][NextJoin]_vars

\* ------------------------------------------------------------------------
\* Properties of the combined node
\* ------------------------------------------------------------------------
\* The decomposition call of this run raised.
DecompositionFailed == fan # << >> /\ fan[1].kind = "join"
                       /\ fan[1].decomposition_failed

\* A result of run_query_processing for a single query.
SingleQueryResult(update) ==
    /\ DOMAIN update = {"processed_query"}
    /\ update.processed_query # None

\* C22: when the decomposition model call raised, decompose_query_if_needed
\* answers needs_decomposition = false with no sub-queries, the query task
\* goes on as a single query (whatever it returns is a processed query and
\* never a list of sub-queries), and the run stays in single-query mode:
\* the state is never marked decomposed and, once the node has returned,
\* holds a processed query and never sub-query results.
C22_DecompositionFailureSingleQuery ==
    DecompositionFailed =>
        /\ (fan[1].decomposition_result # None =>
               fan[1].decomposition_result[1]
                  = [needs_decomposition |-> FALSE, n |-> 0])
        /\ (fan[1].pc = "submitted" /\ fan[1].query_future.done
              /\ ~fan[1].query_future.raised =>
               SingleQueryResult(fan[1].query_future.update))
        /\ ~state.is_decomposed
        /\ state.sub_queries = None
        /\ state.sub_query_results = None
        /\ (pc \in Nodes \ {"memory_and_query"} => state.processed_query # None)

\* the decomposition call raised and the run went through retrieval as a
\* single query
C22_Witness ==
    /\ DecompositionFailed
    /\ pc = "validation"
    /\ runs["retrieval"] = 1
    /\ state.processed_query # None
    /\ state.retrieved_context > 0

\* The running node belongs to the stage started last.
InCurrentStage == pc \in Nodes => StageOf(pc) = ran[Len(ran)]

\* C30: the combined node returns (so retrieval starts) only when both the
\* memory task and the query task have finished; the two results have no key
\* in common and the returned state holds each key as its task wrote it; and
\* a stage starts only from the last node of the stage before it, which
\* never runs again.
C30_FanInAndSequentialStages ==
    [][/\ (pc = "memory_and_query" /\ pc' # pc) =>
             /\ fan # << >>
             /\ fan[1].memory_future.done
             /\ fan[1].query_future.done
             /\ DOMAIN fan[1].memory_future.update
                   \cap DOMAIN fan[1].query_future.update = {}
             /\ (pc' = "retrieval" =>
                    /\ \A k \in DOMAIN fan[1].memory_future.update :
                          state'[k] = fan[1].memory_future.update[k]
                    /\ \A k \in DOMAIN fan[1].query_future.update :
                          state'[k] = fan[1].query_future.update[k])
       /\ (pc' = "retrieval" => fan # << >>
                                  /\ fan[1].query_future.done
                                  /\ fan[1].memory_future.done)
       /\ InCurrentStage'
       /\ (ran' # ran =>
             /\ pc \in {"validation", "analysis_validation"}
             /\ (pc = "validation" =>
                    should_continue_retrieval(state') = "end")
             /\ ran' = Append(ran, StageOf(pc'))
             /\ IsPrefix(ran', Stages)
             /\ steps' = 0)]_vars

\* the node has returned with the history of the memory task and the
\* sub-queries of the query task both in the state
C30_Witness ==
    /\ fan # << >>
    /\ fan[1].kind = "join"
    /\ fan[1].pc = "returned"
    /\ pc = "retrieval"
    /\ state.relevant_history # None
    /\ state.is_decomposed
    /\ state.sub_queries # None

\* ------------------------------------------------------------------------
\* Retrieval over an index with given vector scores
\* ------------------------------------------------------------------------
\* Vector scores of one company's chunks for a query, best first.
ScoreLists == {<<900, 860, 820>>, <<910, 810, 760, 450>>,
               <<850, 680, 630, 460, 320>>}

\* u1 holds apple chunks of the scores apple_scores and two microsoft
\* chunks; the content of every chunk has the same keyword relevance.
ScoredChunks(apple_scores, keyword) ==
    [j \in 1..Len(apple_scores) |->
        Point(j, "u1", "apple", 1, apple_scores[j], keyword)]
    \o << Point(101, "u1", "microsoft", 1, 880, keyword),
          Point(102, "u1", "microsoft", 1, 500, keyword),
          Point(201, "u2", "apple", 1, 990, keyword) >>

InitOrder ==
    /\ \E apple_scores \in ScoreLists, keyword \in {200, 500} :
          store = [chunks |-> ScoredChunks(apple_scores, keyword),
                   conversations |-> <<>>,
                   memory_points |-> <<>>]
    /\ \E r \in Requests : req = Some(r)
    /\ rpc = "requested"
    /\ retrieved = <<>>
    /\ memory = <<>>
    /\ OrchestratorIdle
    /\ AuxIdle

SpecOrder == InitOrder /\ [][NextRetrieve]_vars

\* ------------------------------------------------------------------------
\* Properties of balancing and of the order within a company
\* ------------------------------------------------------------------------
HasId(rs, id) == \E i \in 1..Len(rs) : rs[i].id = id

PlaceOf(rs, id) == CHOOSE i \in 1..Len(rs) : rs[i].id = id

\* The score hybrid_search gives a chunk before it normalizes per company.
HybridScore(r) == Blend(HYBRID_SEARCH_ALPHA, r.score, r.keyword)

\* In the step from `before` to `after`, of two chunks of one company the
\* one that scores higher by `score` stays ahead of the other, and is kept
\* whenever the other is kept.
KeepsCompanyOrder(before, after, score(_)) ==
    \A i, j \in 1..Len(before) :
        (/\ Lower(before[i].company) = Lower(before[j].company)
         /\ score(before[i]) > score(before[j])
         /\ HasId(after, before[j].id))
          => /\ HasId(after, before[i].id)
             /\ PlaceOf(after, before[i].id) < PlaceOf(after, before[j].id)

SameCompanyOrderInHybrid ==
    (rpc = "searched" /\ rpc' = "hybrid")
       => KeepsCompanyOrder(retrieved, retrieved', HybridScore)

ScoreOf(r) == r.score

SameCompanyOrderInRerank ==
    (rpc = "hybrid" /\ rpc' = "returned")
       => KeepsCompanyOrder(retrieved, retrieved', ScoreOf)

\* C31: of two chunks of the same company, the one with the higher hybrid
\* score comes first in the balanced list and in the list Retriever.retrieve
\* returns, and a company's chunk is in a list only together with every
\* chunk of the company that scores higher.  (The balanced list holds the
\* per-company normalized hybrid score, which rises with the hybrid score.)
C31_WithinCompanyOrderPreserved ==
    [][SameCompanyOrderInHybrid /\ SameCompanyOrderInRerank]_vars

\* ------------------------------------------------------------------------
\* _balance_results called on any candidate list
\* ------------------------------------------------------------------------
\* Bounds of a call
MaxCandidates == 3
MaxTopK == 6
MaxTargets == 3

CompanyNames == <<"apple", "microsoft", "tesla">>

\* Names as a caller may write them.
TargetNames == {"apple", "Apple", "microsoft", "tesla"}

\* The results of the companies, counts[i] of them for CompanyNames[i], in
\* the order the index gave them (not by score within a company).
RECURSIVE CandidateResults(_, _)
CandidateResults(counts, i) ==
    IF i > Len(counts) THEN <<>>
    ELSE [j \in 1..counts[i] |->
             ChunkOfPoint(Point(10 * i + j, "u1", CompanyNames[i], j,
                                100 * i + 10 * j, 500))]
         \o CandidateResults(counts, i + 1)

BalanceCalls ==
    {[results |-> CandidateResults(counts, 1), target_companies |-> t,
      top_k |-> k] :
        counts \in [1..Len(CompanyNames) -> 0..MaxCandidates],
        t \in UNION {[1..n -> TargetNames] : n \in 2..MaxTargets},
        k \in 1..MaxTopK}

\* One call of _balance_results from its entry to its return.
balance_results_call ==
    /\ rpc = "balance_called"
    /\ retrieved' = _balance_results(req[1].results, req[1].target_companies,
                                     req[1].top_k)
    /\ rpc' = "balanced"
    /\ UNCHANGED <<store, req, memory, orchVars, auxVars>>

InitBalance ==
    /\ \E call \in BalanceCalls : req = Some(call)
    /\ rpc = "balance_called"
    /\ store = <<>>
    /\ retrieved = <<>>
    /\ memory = <<>>
    /\ OrchestratorIdle
    /\ AuxIdle

NextBalance == balance_results_call

SpecBalance == InitBalance /\ [][NextBalance]_vars

\* ------------------------------------------------------------------------
\* Properties of _balance_results
\* ------------------------------------------------------------------------
Balanced == rpc = "balanced"

BalanceTargets == LowerAll(req[1].target_companies)

DistinctTargets ==
    \A i, j \in 1..Len(BalanceTargets) :
        BalanceTargets[i] = BalanceTargets[j] => i = j

EvenShare == req[1].top_k \div Len(BalanceTargets)

\* C32: when the n target companies are n different companies and each has
\* more than floor(top_k / n) candidates, every company gets floor(top_k / n)
\* chunks and the first (top_k mod n) of the target list get one more; for
\* every target list no company gets more than max(1, floor(top_k / n)) + 1
\* chunks and the output has at most top_k chunks.
C32_RemainderDistribution ==
    Balanced =>
        /\ (/\ DistinctTargets
            /\ \A i \in 1..Len(BalanceTargets) :
                  CountOf(req[1].results, BalanceTargets[i]) > EvenShare)
             => \A i \in 1..Len(BalanceTargets) :
                   CountOf(retrieved, BalanceTargets[i])
                      = EvenShare
                         + (IF i <= req[1].top_k % Len(BalanceTargets)
                               THEN 1 ELSE 0)
        /\ \A i \in 1..Len(BalanceTargets) :
              CountOf(retrieved, BalanceTargets[i]) <= Max(1, EvenShare) + 1
        /\ Len(retrieved) <= req[1].top_k

\* three companies with enough candidates shared top_k = 5: 2, 2 and 1
C32_Witness ==
    /\ Balanced
    /\ req[1].top_k = 5
    /\ req[1].target_companies = <<"microsoft", "Apple", "tesla">>
    /\ CountOf(retrieved, "microsoft") = 2
    /\ CountOf(retrieved, "apple") = 2
    /\ CountOf(retrieved, "tesla") = 1

\* The number of candidates of the target companies.
TargetCandidates ==
    Len(SelectSeq(req[1].results,
                  LAMBDA r : InSeq(Lower(r.company), BalanceTargets)))

\* C33: when the target companies are different companies and their
\* candidates are at least top_k, the output has exactly top_k chunks.
C33_BalancingFillsToTopK ==
    (Balanced /\ DistinctTargets /\ TargetCandidates >= req[1].top_k)
       => Len(retrieved) = req[1].top_k

\* C34: no candidate is in the output twice.
C34_BalancedNoRepeats ==
    Balanced =>
        \A i, j \in 1..Len(retrieved) :
            retrieved[i].id = retrieved[j].id => i = j

\* ------------------------------------------------------------------------
\* The quality loop of the generation stage on any chart list
\* ------------------------------------------------------------------------
\* Bound of the chart list of the generated response
MaxResponseCharts == 2

\* Chart dicts by their type and data entries.
ChartShapes ==
    [kind : {"dict"},
     type : {"<missing>", "bar", "pie", "scatter"},
     data : {"<missing>", "<notdict>", "labels", "labels+datasets"}]

\* The state at the entry of quality_check after the first synthesis: the
\* response text_explanation built (its charts are dicts) and the errors
\* the analysis stage's validation left.
GeneratedState(charts, analysis_errors) ==
    [AgentState("u1", None) EXCEPT
        !.processed_query = Some([augmented_query |-> "llm",
                                  query_type |-> "llm",
                                  companies |-> "extracted"]),
        !.retrieval_sufficient = TRUE,
        !.retrieval_attempts = 1,
        !.retrieved_context = 1,
        !.analysis_results = Some("analysis"),
        !.validation_errors = analysis_errors,
        !.response = Some([text |-> "generated", charts |-> charts,
                           sources |-> "cited"])]

InitQuality ==
    /\ \E charts \in SeqsUpTo(ChartShapes, MaxResponseCharts),
          analysis_errors \in {<<>>, <<<<0, "analysis">>>>} :
          state = GeneratedState(charts, analysis_errors)
    /\ pc = "quality_check"
    /\ steps = 2
    /\ ran = <<"agent1", "agent2", "agent3">>
    /\ runs = [n \in Nodes |->
                 IF n \in {"refinement", "quality_check", "self_heal",
                           "memory_update"} THEN 0 ELSE 1]
    /\ memory_threads = <<>>
    /\ RetrieveIdle
    /\ AuxIdle

NextQuality ==
    \/ quality_check_node
    \/ self_heal_node
    \/ synthesis_node
    \/ memory_update_node
    \/ update_memory_async

SpecQuality == InitQuality /\ [][NextQuality]_vars

\* ------------------------------------------------------------------------
\* Properties of the quality check
\* ------------------------------------------------------------------------
\* The chart is an object with an allowed type and a data object that has
\* labels and datasets.
WellFormedChart(chart) ==
    /\ chart.kind = "dict"
    /\ chart.type \in {"line", "bar", "pie", "doughnut"}
    /\ chart.data = "labels+datasets"

ResponseCharts == state.response[1].charts

\* C35: a quality_check step marks the response valid exactly when every
\* chart of the response is well formed (so a response with no charts is
\* valid) and stores one error list that holds no error of the analysis
\* stage and is empty exactly when the response is valid; the errors stay
\* as that step wrote them until the next quality_check, and self_heal is
\* entered only with errors of the charts of the response it is given.
C35_ChartStructuralValidation ==
    [][/\ (pc = "quality_check" /\ pc' # pc) =>
             /\ state'.response_valid
                   = (\A i \in 1..Len(ResponseCharts) :
                          WellFormedChart(ResponseCharts[i]))
             /\ state'.response_valid = (state'.validation_errors = <<>>)
             /\ \A i \in 1..Len(state'.validation_errors) :
                   /\ state'.validation_errors[i][1] \in 1..Len(ResponseCharts)
                   /\ ~WellFormedChart(
                          ResponseCharts[state'.validation_errors[i][1]])
             /\ \A i \in 1..Len(ResponseCharts) :
                   ~WellFormedChart(ResponseCharts[i]) =>
                       \E k \in 1..Len(state'.validation_errors) :
                           state'.validation_errors[k][1] = i
       /\ (pc \in {"self_heal", "synthesis", "memory_update"}
             /\ runs["quality_check"] > 0) =>
                state'.validation_errors = state.validation_errors
       /\ (pc' = "self_heal") =>
             /\ state'.validation_errors # <<>>
             /\ \A i \in 1..Len(state'.validation_errors) :
                   state'.validation_errors[i][1]
                      \in 1..Len(state'.response[1].charts)]_vars

\* the response has a well-formed chart and a chart of an allowed type
\* whose data has no datasets, and quality_check sent it to self_heal with
\* one error, for the second chart
C35_Witness ==
    /\ pc = "self_heal"
    /\ runs["quality_check"] = 1
    /\ Len(ResponseCharts) = 2
    /\ WellFormedChart(ResponseCharts[1])
    /\ ResponseCharts[2].type = "pie"
    /\ ResponseCharts[2].data = "labels"
    /\ ~state.response_valid
    /\ Len(state.validation_errors) = 1
    /\ state.validation_errors[1][1] = 2

\* ------------------------------------------------------------------------
\* SimpleCache called from concurrent threads
\* ------------------------------------------------------------------------
\* Bounds of the cache
MaxClock == 3
MaxVersion == 2

CacheKeys == {"k1", "k2"}
CacheThreads == {"t1", "t2"}
TTLs == {1, 2}

\* CacheEntry.is_expired at time now
is_expired(entry, now) == now >= entry.expires_at

\* SimpleCache.get that does not look at the expiry time.
get_ignoring_expiry(entries, key, now) ==
    IF entries[key] = None
       THEN [entries |-> entries, value |-> None]
       ELSE [entries |-> entries, value |-> Some(entries[key][1].value)]

\* SimpleCache.get: the dict after the call and the value returned.
get(entries, key, now) ==
    IF entries[key] = None
       THEN [entries |-> entries, value |-> None]
    ELSE IF is_expired(entries[key][1], now)
       THEN [entries |-> [entries EXCEPT ![key] = None], value |-> None]
    ELSE [entries |-> entries, value |-> Some(entries[key][1].value)]

\* SimpleCache.set
set(entries, key, value, ttl_seconds, now) ==
    [entries EXCEPT ![key] = Some([value |-> value,
                                   expires_at |-> now + ttl_seconds])]

\* SimpleCache.delete
delete(entries, key) == [entries EXCEPT ![key] = None]

\* SimpleCache.size: expired entries are removed, the rest is counted.
size(entries, now) ==
    LET cleaned == [k \in DOMAIN entries |->
                       IF entries[k] # None /\ is_expired(entries[k][1], now)
                          THEN None ELSE entries[k]]
    IN [entries |-> cleaned,
        value |-> Cardinality({k \in DOMAIN cleaned : cleaned[k] # None})]

\* A thread between the calls of its get_or_set.
IdleThread == [pc |-> "idle", key |-> "k1"]

\* The value a set stores: the key it is stored under and a serial number.
NewValue(key, c) == <<key, c.version + 1>>

\* The record of a completed set or delete of a key (kept for the check).
Logged(c, key, op, value, ttl_seconds) ==
    [c.log EXCEPT ![key] = [op |-> op, value |-> value,
                            expires_at |-> c.now + ttl_seconds]]

\* get called by any thread.
get_call ==
    /\ cache # << >>
    /\ \E key \in CacheKeys :
         LET r == get(cache[1].entries, key, cache[1].now)
         IN cache' = Some([cache[1] EXCEPT
                 !.entries = r.entries,
                 !.got = Some([key |-> key, value |-> r.value,
                               now |-> cache[1].now])])
    /\ UNCHANGED <<orchVars, retrVars, fan, chat, qp, kw, usage, worker>>

\* set called by any thread.
set_call ==
    /\ cache # << >>
    /\ cache[1].version < MaxVersion
    /\ \E key \in CacheKeys, ttl_seconds \in TTLs :
         cache' = Some([cache[1] EXCEPT
             !.entries = set(@, key, NewValue(key, cache[1]), ttl_seconds,
                             cache[1].now),
             !.version = @ + 1,
             !.log = Logged(cache[1], key, "set", NewValue(key, cache[1]),
                            ttl_seconds)])
    /\ UNCHANGED <<orchVars, retrVars, fan, chat, qp, kw, usage, worker>>

\* delete called by any thread.
delete_call ==
    /\ cache # << >>
    /\ \E key \in CacheKeys :
         cache' = Some([cache[1] EXCEPT
             !.entries = delete(@, key),
             !.log = Logged(cache[1], key, "delete", None, 0)])
    /\ UNCHANGED <<orchVars, retrVars, fan, chat, qp, kw, usage, worker>>

\* size called by any thread.
size_call ==
    /\ cache # << >>
    /\ LET r == size(cache[1].entries, cache[1].now)
       IN cache' = Some([cache[1] EXCEPT !.entries = r.entries])
    /\ UNCHANGED <<orchVars, retrVars, fan, chat, qp, kw, usage, worker>>

\* get_or_set, first part: the get; on a hit the call returns.
get_or_set_get ==
    /\ cache # << >>
    /\ \E t \in CacheThreads, key \in CacheKeys :
         /\ cache[1].threads[t].pc = "idle"
         /\ LET r == get(cache[1].entries, key, cache[1].now)
            IN cache' = Some([cache[1] EXCEPT
                    !.entries = r.entries,
                    !.got = Some([key |-> key, value |-> r.value,
                                  now |-> cache[1].now]),
                    !.threads[t] = IF r.value # None THEN IdleThread
                                   ELSE [pc |-> "fetching", key |-> key]])
    /\ UNCHANGED <<orchVars, retrVars, fan, chat, qp, kw, usage, worker>>

\* get_or_set, second part: fetch_fn has returned; a value that is not
\* None is set, and the call returns.
get_or_set_set ==
    /\ cache # << >>
    /\ \E t \in CacheThreads, fetched \in BOOLEAN, ttl_seconds \in TTLs :
         /\ cache[1].threads[t].pc = "fetching"
         /\ fetched => cache[1].version < MaxVersion
         /\ LET key == cache[1].threads[t].key
            IN cache' = Some(
                 IF fetched
                    THEN [cache[1] EXCEPT
                            !.entries = set(@, key, NewValue(key, cache[1]),
                                            ttl_seconds, cache[1].now),
                            !.version = @ + 1,
                            !.log = Logged(cache[1], key, "set",
                                           NewValue(key, cache[1]), ttl_seconds),
                            !.threads[t] = IdleThread]
                    ELSE [cache[1] EXCEPT !.threads[t] = IdleThread])
    /\ UNCHANGED <<orchVars, retrVars, fan, chat, qp, kw, usage, worker>>

\* datetime.utcnow() moves on.
tick ==
    /\ cache # << >>
    /\ cache[1].now < MaxClock
    /\ cache' = Some([cache[1] EXCEPT !.now = @ + 1])
    /\ UNCHANGED <<orchVars, retrVars, fan, chat, qp, kw, usage, worker>>

\* SimpleCache(): an empty dict.
InitCache ==
    /\ cache = Some([entries |-> [k \in CacheKeys |-> None],
                     now |-> 0,
                     version |-> 0,
                     threads |-> [t \in CacheThreads |-> IdleThread],
                     got |-> None,
                     log |-> [k \in CacheKeys |->
                                 [op |-> "none", value |-> None,
                                  expires_at |-> 0]]])
    /\ OrchestratorIdle
    /\ RetrieveIdle
    /\ fan = <<>>
    /\ chat = "none"
    /\ qp = <<>>
    /\ kw = <<>>
    /\ usage = <<>>
    /\ worker = <<>>

NextCache ==
    \/ get_call
    \/ set_call
    \/ delete_call
    \/ size_call
    \/ get_or_set_get
    \/ get_or_set_set
    \/ tick

SpecCache == InitCache /\ [][NextCache]_vars

\* ------------------------------------------------------------------------
\* Properties of the cache
\* ------------------------------------------------------------------------
\* C36: a get (alone or inside get_or_set) that returns a value returns the
\* value of the latest completed set of that key: the last completed set or
\* delete of the key is a set, of this value, stored under this key, and its
\* time to live has not run out at the time of the get.
C36_CacheSafety ==
    [][(/\ cache # << >>
        /\ cache'[1].got # cache[1].got
        /\ cache'[1].got[1].value # None)
         => LET g == cache'[1].got[1]
                last == cache[1].log[g.key]
            IN /\ last.op = "set"
               /\ g.value[1] = last.value
               /\ g.value[1][1] = g.key
               /\ g.now < last.expires_at]_vars

\* a get returned the second value that was set, after time had passed and
\* after a delete of the other key
C36_Witness ==
    /\ cache # << >>
    /\ cache[1].got # None
    /\ cache[1].got[1].value = Some(<<"k1", 2>>)
    /\ cache[1].got[1].now >= 1
    /\ cache[1].log["k2"].op = "delete"


\* ------------------------------------------------------------------------
\* Chat requests of one user: usage limit and cost of a query
\* ------------------------------------------------------------------------
\* Model calls one run makes at most.
MaxCalls == 2

RequestIds == {"r1", "r2"}
\* monthly_query_limit of the users row
QueryLimits == {1, 2}
\* response.cost of one model call, in thousandths of a dollar
CallCosts == {0, 1, 2}
RunOutcomes == {"response", "no_response", "error"}

WaitingRequest ==
    [pc |-> "waiting", profile |-> None, cost_before |-> 0, calls |-> 0,
     own |-> 0, query_cost |-> 0, outcome |-> "none"]

\* UserService.check_query_limit on a profile
check_query_limit(user) ==
    user.queries_used_this_month < user.monthly_query_limit

\* chat_query after get_user_profile gave the profile: check_usage_limit
\* raises 429, or cost_before is read and run_query goes to the executor.
Admit(u, r, user) ==
    IF check_query_limit(user)
    THEN [u EXCEPT !.requests[r].pc = "running",
                   !.requests[r].profile = None,
                   !.requests[r].cost_before = u.total_cost,
                   !.started = @ + 1]
    ELSE [u EXCEPT !.requests[r].pc = "rejected",
                   !.requests[r].profile = None]

\* chat_query up to get_user_profile: a cached profile is used at once,
\* otherwise the users row is read.
chat_query_start ==
    /\ usage # << >>
    /\ \E r \in RequestIds :
        LET u == usage[1]
        IN /\ u.requests[r].pc = "waiting"
           /\ usage' = Some(IF u.profile_cache # None
                            THEN Admit(u, r, u.profile_cache[1])
                            ELSE [u EXCEPT !.requests[r].pc = "fetched",
                                           !.requests[r].profile =
                                               Some(u.row)])
    /\ UNCHANGED <<orchVars, retrVars, fan, chat, qp, kw, cache, worker>>

\* get_user_profile after the read: the profile is cached and checked.
chat_query_check ==
    /\ usage # << >>
    /\ \E r \in RequestIds :
        LET u == usage[1]
            user == u.requests[r].profile[1]
        IN /\ u.requests[r].pc = "fetched"
           /\ usage' = Some(Admit([u EXCEPT !.profile_cache = Some(user)],
                                  r, user))
    /\ UNCHANGED <<orchVars, retrVars, fan, chat, qp, kw, cache, worker>>

\* user_profile_cache entry older than its time to live
profile_cache_expire ==
    /\ usage # << >>
    /\ usage[1].profile_cache # None
    /\ usage' = Some([usage[1] EXCEPT !.profile_cache = None])
    /\ UNCHANGED <<orchVars, retrVars, fan, chat, qp, kw, cache, worker>>

\* CostTracker.record_cost
record_cost(total_cost, cost) == total_cost + cost

\* LLMManager.generate in the executor thread of a run; the thread of a
\* cancelled request runs on.
llm_generate ==
    /\ usage # << >>
    /\ \E r \in RequestIds, cost \in CallCosts :
        LET u == usage[1]
        IN /\ u.requests[r].pc \in {"running", "cancelled"}
           /\ u.requests[r].calls < MaxCalls
           /\ usage' = Some([u EXCEPT
                  !.total_cost = IF cost # 0 THEN record_cost(@, cost)
                                 ELSE @,
                  !.requests[r].calls = @ + 1,
                  !.requests[r].own = @ + cost])
    /\ UNCHANGED <<orchVars, retrVars, fan, chat, qp, kw, cache, worker>>

\* cost_after - cost_before
query_cost(u, r) == u.total_cost - u.requests[r].cost_before

\* chat_query after run_in_executor returned: the cost of the query is
\* computed and record_query is handed to the background tasks.
run_query_return ==
    /\ usage # << >>
    /\ \E r \in RequestIds, outcome \in RunOutcomes :
        LET u == usage[1]
        IN /\ u.requests[r].pc = "running"
           /\ usage' = Some([u EXCEPT
                  !.requests[r].pc = "responded",
                  !.requests[r].outcome = outcome,
                  !.requests[r].query_cost = query_cost(u, r)])
    /\ UNCHANGED <<orchVars, retrVars, fan, chat, qp, kw, cache, worker>>

\* chat_query cancelled while it awaits the run: 499, nothing recorded.
run_query_cancelled ==
    /\ usage # << >>
    /\ \E r \in RequestIds :
        /\ usage[1].requests[r].pc = "running"
        /\ usage' = Some([usage[1] EXCEPT
               !.requests[r].pc = "cancelled",
               !.requests[r].outcome = "cancelled"])
    /\ UNCHANGED <<orchVars, retrVars, fan, chat, qp, kw, cache, worker>>

\* UsageTracker.record_query up to the increment: the insert into
\* query_usage with the request's query_cost as cost_usd, then the
\* increment of the users row; a failed insert or a failed increment
\* leaves the row and the cache as they are.
record_query ==
    /\ usage # << >>
    /\ \E r \in RequestIds, ok \in BOOLEAN :
        LET u == usage[1]
        IN /\ u.requests[r].pc = "responded"
           /\ usage' = Some(
                  IF ok
                  THEN [u EXCEPT
                           !.requests[r].pc = "incremented",
                           !.row.queries_used_this_month = @ + 1]
                  ELSE [u EXCEPT !.requests[r].pc = "not_recorded"])
    /\ UNCHANGED <<orchVars, retrVars, fan, chat, qp, kw, cache, worker>>

\* increment_query_count after the increment: the cached profile is
\* deleted.
increment_query_count_invalidate ==
    /\ usage # << >>
    /\ \E r \in RequestIds :
        /\ usage[1].requests[r].pc = "incremented"
        /\ usage' = Some([usage[1] EXCEPT
               !.requests[r].pc = "recorded",
               !.profile_cache = None])
    /\ UNCHANGED <<orchVars, retrVars, fan, chat, qp, kw, cache, worker>>

InitUsage ==
    /\ \E limit \in QueryLimits :
        usage = Some([row |-> [queries_used_this_month |-> 0,
                               monthly_query_limit |-> limit],
                      profile_cache |-> None,
                      total_cost |-> 0,
                      started |-> 0,
                      requests |-> [r \in RequestIds |-> WaitingRequest]])
    /\ OrchestratorIdle
    /\ RetrieveIdle
    /\ fan = <<>>
    /\ chat = "none"
    /\ qp = <<>>
    /\ kw = <<>>
    /\ cache = <<>>
    /\ worker = <<>>

NextUsage ==
    \/ chat_query_start
    \/ chat_query_check
    \/ profile_cache_expire
    \/ llm_generate
    \/ run_query_return
    \/ run_query_cancelled
    \/ record_query
    \/ increment_query_count_invalidate

SpecUsage == InitUsage /\ [][NextUsage]_vars

\* C37: for one user, the number of workflow runs started within the
\* month never exceeds monthly_query_limit, whatever the interleaving of
\* the user's concurrent chat requests.
C37_MonthlyLimitUnderConcurrency ==
    usage # << >> =>
        usage[1].started <= usage[1].row.monthly_query_limit

\* C38: the query_cost computed for a chat request, and the cost_usd
\* recorded for it, equal the sum of the costs of the model calls its
\* own run made, whatever runs concurrently in the process.
C38_PerRequestCostAttribution ==
    usage # << >> =>
        \A r \in RequestIds :
            usage[1].requests[r].pc \in
                {"responded", "incremented", "recorded", "not_recorded"}
                => usage[1].requests[r].query_cost =
                       usage[1].requests[r].own

\* ------------------------------------------------------------------------
\* The document worker: worker_loop and process_task over the Redis queue
\* ------------------------------------------------------------------------
\* Entries the queue holds when the worker starts.
MaxQueue == 3

TaskIds == {"t1", "t2"}
TerminalStatuses == {"completed", "failed"}
\* mineru.parse_pdf raises, upload_content_list returns False,
\* indexer.index_document raises
WorkOutcomes == {"ok", "parse_error", "upload_failed", "index_error"}
StoreOutcomes == {"ok", "store_error"}

\* update_task_status: the status is written, or Redis raises and the
\* stored status stays.
update_task_status(status, task_id, new_status, outcome) ==
    IF outcome = "ok" THEN [status EXCEPT ![task_id] = new_status]
    ELSE status

\* worker_loop from dequeue_task to the call of process_task: brpop takes
\* the oldest entry; an entry whose status is completed or failed is
\* skipped; an entry whose status cannot be read is dropped.
worker_loop_dequeue ==
    /\ worker # << >>
    /\ \E outcome \in StoreOutcomes :
        LET w == worker[1]
            task_id == w.queue[Len(w.queue)]
            rest == SubSeq(w.queue, 1, Len(w.queue) - 1)
        IN /\ w.pc = "idle"
           /\ w.queue # << >>
           /\ worker' = Some(
                  IF outcome = "store_error"
                  THEN [w EXCEPT !.queue = rest]
                  ELSE IF w.status[task_id] \in TerminalStatuses
                  THEN [w EXCEPT !.queue = rest,
                                 !.skipped = @ \cup {task_id}]
                  ELSE [w EXCEPT !.queue = rest,
                                 !.pc = "start",
                                 !.current = Some(task_id)])
    /\ UNCHANGED <<orchVars, retrVars, fan, chat, qp, kw, cache, usage>>

\* process_task: update_task_status(PROCESSING), then mark_processing
process_task_mark ==
    /\ worker # << >>
    /\ \E outcome \in {"ok", "status_error", "mark_error"} :
        LET w == worker[1]
            task_id == w.current[1]
        IN /\ w.pc = "start"
           /\ worker' = Some(
                  IF outcome = "status_error"
                  THEN [w EXCEPT !.pc = "except"]
                  ELSE IF outcome = "mark_error"
                  THEN [w EXCEPT
                           !.status = update_task_status(
                               @, task_id, "processing", "ok"),
                           !.pc = "except"]
                  ELSE [w EXCEPT
                           !.status = update_task_status(
                               @, task_id, "processing", "ok"),
                           !.processing = @ \cup {task_id},
                           !.pc = "work"])
    /\ UNCHANGED <<orchVars, retrVars, fan, chat, qp, kw, cache, usage>>

\* process_task: parse, upload, index
process_task_work ==
    /\ worker # << >>
    /\ \E outcome \in WorkOutcomes :
        /\ worker[1].pc = "work"
        /\ worker' = Some([worker[1] EXCEPT
               !.pc = IF outcome \in {"parse_error", "index_error"}
                      THEN "except" ELSE "complete"])
    /\ UNCHANGED <<orchVars, retrVars, fan, chat, qp, kw, cache, usage>>

\* process_task: update_task_status(COMPLETED) and the webhook, each in
\* its own try
process_task_complete ==
    /\ worker # << >>
    /\ \E outcome \in StoreOutcomes, webhook_ok \in BOOLEAN :
        LET w == worker[1]
            task_id == w.current[1]
        IN /\ w.pc = "complete"
           /\ worker' = Some([w EXCEPT
                  !.status = update_task_status(
                      @, task_id, "completed", outcome),
                  !.webhooks = IF webhook_ok
                               THEN @ \cup {<<task_id, "completed">>}
                               ELSE @,
                  !.pc = "finally"])
    /\ UNCHANGED <<orchVars, retrVars, fan, chat, qp, kw, cache, usage>>

\* process_task, except branch: update_task_status(FAILED) and the
\* webhook, each in its own try
process_task_except ==
    /\ worker # << >>
    /\ \E outcome \in StoreOutcomes, webhook_ok \in BOOLEAN :
        LET w == worker[1]
            task_id == w.current[1]
        IN /\ w.pc = "except"
           /\ worker' = Some([w EXCEPT
                  !.status = update_task_status(
                      @, task_id, "failed", outcome),
                  !.webhooks = IF webhook_ok
                               THEN @ \cup {<<task_id, "failed">>}
                               ELSE @,
                  !.pc = "finally"])
    /\ UNCHANGED <<orchVars, retrVars, fan, chat, qp, kw, cache, usage>>

\* process_task, finally branch: unmark_processing in its own try, then
\* process_task returns to worker_loop
process_task_finally ==
    /\ worker # << >>
    /\ \E outcome \in StoreOutcomes :
        LET w == worker[1]
            task_id == w.current[1]
        IN /\ w.pc = "finally"
           /\ worker' = Some([w EXCEPT
                  !.processing = IF outcome = "ok" THEN @ \ {task_id}
                                 ELSE @,
                  !.returned = Some(task_id),
                  !.current = None,
                  !.pc = "idle"])
    /\ UNCHANGED <<orchVars, retrVars, fan, chat, qp, kw, cache, usage>>

\* The queue as enqueue_task left it, every queued task pending; an
\* entry may have been delivered twice.
InitWorker ==
    /\ \E queue \in SeqsUpTo(TaskIds, MaxQueue) :
        worker = Some([queue |-> queue,
                       status |-> [t \in TaskIds |->
                                      IF t \in Range(queue) THEN "pending"
                                      ELSE "none"],
                       processing |-> {},
                       webhooks |-> {},
                       skipped |-> {},
                       returned |-> None,
                       current |-> None,
                       pc |-> "idle"])
    /\ OrchestratorIdle
    /\ RetrieveIdle
    /\ fan = <<>>
    /\ chat = "none"
    /\ qp = <<>>
    /\ kw = <<>>
    /\ cache = <<>>
    /\ usage = <<>>

NextWorker ==
    \/ worker_loop_dequeue
    \/ process_task_mark
    \/ process_task_work
    \/ process_task_complete
    \/ process_task_except
    \/ process_task_finally

SpecWorker == InitWorker /\ [][NextWorker]_vars

\* process_task returns for the task in this step.
ProcessTaskReturns ==
    /\ worker # << >>
    /\ worker[1].pc = "finally"
    /\ worker'[1].pc = "idle"

\* process_task is called for a task in this step.
ProcessTaskCalled ==
    /\ worker # << >>
    /\ worker[1].pc = "idle"
    /\ worker'[1].pc = "start"

\* C39: when process_task returns for a dequeued task, whatever failed
\* (parsing, upload, indexing, webhook, status store), the recorded status
\* of the task is completed or failed and the task is not in the
\* processing set; and process_task is never called for a task whose
\* status is already completed or failed.
C39_TaskReachesTerminalStatus ==
    [][(ProcessTaskReturns =>
            LET task_id == worker[1].current[1]
            IN /\ worker'[1].status[task_id] \in TerminalStatuses
               /\ task_id \notin worker'[1].processing)
       /\ (ProcessTaskCalled =>
               worker[1].status[worker'[1].current[1]]
                   \notin TerminalStatuses)]_vars
====
